---------------------------- MODULE Spec2Model ----------------------------
(***************************************************************************)
(* Hex-grid tactical RPG client: axial hex math, Tile/grid, the A* search  *)
(* of core/pathfinding/a_star.py, and the combat round machinery of        *)
(* client/combat_system.py, client/input_handler.py, client/enemy.py and   *)
(* client/game_state.py.                                                   *)
(***************************************************************************)
EXTENDS Integers, Sequences, FiniteSets, TLC

(***************************************************************************)
(* Bounds of the model                                                     *)
(***************************************************************************)
\* The search grids are the axial rectangle (0..MaxQ) x (0..MaxR).
MaxQ == 3
MaxR == 1
\* At most this many tiles of a search grid are other than open plain ground.
MaxRough == 2
\* Largest finite movement budget handed to a_star in the search runs.
MaxBudget == 2
\* The combat grid is the axial rectangle (0..MaxCQ) x (0..MaxCR).
MaxCQ == 1
MaxCR == 3
\* At most this many tiles of the combat grid are forest or wall.
MaxRoughC == 1
\* Round ticks and planning calls (clicks) in a run.
MaxTicks == 2
MaxClicks == 2
\* Key presses ('c', 'e') in a run.
MaxKeys == 1

\* Largest hex distance between enemy and player in the decision runs.
MaxDist == 16
\* Points of a movement segment at which the character's pixel is sampled.
LerpSteps == 4
\* HP of an enemy the player has already hit, in the fights that start midway.
MidFightHp == 4
\* Coordinates hex_distance is measured between: -MaxCoord..MaxCoord.
MaxCoord == 2

(***************************************************************************)
(* Program constants                                                       *)
(***************************************************************************)
\* float('inf'): the cost of a wall tile and the default of g_score.get.
INF == 1000
PlainCost == 1
ForestCost == 2

\* GameState defaults and Enemy.__init__.
PlayerHp == 10
MvLimit == 6
ExplorationMv == 99
EnemyHp == 10
EnemyMv == 99
ChaseDistance == 10
RetreatThreshold == 3
\* roll_d6: random.randint(1, DiceSides).
DiceSides == 6

\* HexGrid(size=10, hex_size=50).
HexSize == 50
\* math.sqrt(3), in thousandths.
Sqrt3Milli == 1732
\* GameState.goal_pos as GameController sets it.
GoalQ == 9
GoalR == 9

\* AISystem._decide_behavior: chase within 15 hexes, retreat at or below 0.3
\* of max_hp (in tenths).
AiChaseDistance == 15
AiRetreatTenths == 3

\* An HTTP status other than 200.
ErrorStatus == 400
\* server/app.py: max_distance of the server's search in combat mode.
ServerCombatBudget == 6
\* InputHandler._handle_exploration_mode_click: local_mv_limit.
LocalMvLimit == 99

\* Python's None where a coordinate is expected (came_from has no key, no plan).
None == <<>>
\* Python's None as max_distance: no budget.
NoBudget == -1

(***************************************************************************)
(* utils/hex_utils.py                                                      *)
(***************************************************************************)
Abs(x) == IF x < 0 THEN -x ELSE x

Min(S) == CHOOSE x \in S : \A y \in S : x <= y

Max(S) == CHOOSE x \in S : \A y \in S : x >= y

\* The second direction points to (q+1, r+1), which is no neighbor.
get_neighbors_Square(q, r) ==
    << <<q + 1, r>>, <<q + 1, r + 1>>, <<q, r - 1>>,
       <<q - 1, r>>, <<q - 1, r + 1>>, <<q, r + 1>> >>

get_neighbors(q, r) ==
    << <<q + 1, r>>, <<q + 1, r - 1>>, <<q, r - 1>>,
       <<q - 1, r>>, <<q - 1, r + 1>>, <<q, r + 1>> >>

\* The larger of the two component magnitudes.
hex_distance_MaxNorm(q1, r1, q2, r2) ==
    IF Abs(q1 - q2) >= Abs(r1 - r2) THEN Abs(q1 - q2) ELSE Abs(r1 - r2)

\* The diagonal term is left out.
hex_distance_NoDiagonal(q1, r1, q2, r2) ==
    (Abs(q1 - q2) + Abs(r1 - r2)) \div 2

hex_distance(q1, r1, q2, r2) ==
    (Abs(q1 - q2) + Abs(q1 + r1 - q2 - r2) + Abs(r1 - r2)) \div 2

HexDist(a, b) == hex_distance(a[1], a[2], b[1], b[2])

(***************************************************************************)
(* client/map/tile.py                                                      *)
(***************************************************************************)
TileTypes == {"plain", "forest", "wall"}

Tile(tile_type) ==
    IF tile_type = "plain" THEN [type |-> "plain", cost |-> PlainCost, blocked |-> FALSE]
    ELSE IF tile_type = "forest" THEN [type |-> "forest", cost |-> ForestCost, blocked |-> FALSE]
    ELSE IF tile_type = "wall" THEN [type |-> "wall", cost |-> INF, blocked |-> TRUE]
    ELSE [type |-> tile_type, cost |-> PlainCost, blocked |-> FALSE]

\* Python float addition with inf: anything plus inf is inf.
AddCost(a, b) == IF a >= INF \/ b >= INF THEN INF ELSE a + b

(***************************************************************************)
(* core/pathfinding/a_star.py                                              *)
(*                                                                         *)
(* A grid is a function from its cells (coordinate pairs) to tiles; a      *)
(* coordinate is "in grid" when it is in the function's domain.  The       *)
(* search state is a record: g (g_score, INF where the dict has no key),   *)
(* came (came_from, None where the dict has no key), open (the heap, a set *)
(* of <<f, node>> entries: open_set_hash keeps one entry per node), and    *)
(* status/path for the value returned.                                     *)
(***************************************************************************)
\* Python's tuple order on heap entries (f, (q, r)).
EntryLess(a, b) ==
    \/ a[1] < b[1]
    \/ a[1] = b[1] /\ a[2][1] < b[2][1]
    \/ a[1] = b[1] /\ a[2][1] = b[2][1] /\ a[2][2] < b[2][2]

\* heapq.heappop: the least entry of the heap.
HeapMin(open) == CHOOSE e \in open : \A o \in open : o = e \/ EntryLess(e, o)

OpenNodes(open) == {e[2] : e \in open}

RECURSIVE WalkBack(_, _, _)
\* The loop of reconstruct_path: current, then came_from[current], ... while
\* current is a key of came_from; the sequence is in walking order (goal first).
WalkBack(came, current, acc) ==
    IF current \in DOMAIN came /\ came[current] # None
    THEN WalkBack(came, came[current], Append(acc, came[current]))
    ELSE acc

Reverse(s) == [i \in 1..Len(s) |-> s[Len(s) + 1 - i]]

reconstruct_path(came, current, start) ==
    LET path == WalkBack(came, current, <<current>>) IN
    IF Len(path) > 0 /\ path[Len(path)] = start
    THEN LET rev == Reverse(path) IN <<start>> \o SubSeq(rev, 2, Len(rev))
    ELSE Reverse(path)

\* Mutation of Truncate: the slice path[:max_distance].
Truncate_OneShort(path, max_distance) ==
    IF max_distance # NoBudget /\ Len(path) > max_distance + 1
    THEN SubSeq(path, 1, max_distance)
    ELSE path

\* path[:max_distance + 1] when max_distance is an int and the path is longer.
Truncate(path, max_distance) ==
    IF max_distance # NoBudget /\ Len(path) > max_distance + 1
    THEN SubSeq(path, 1, max_distance + 1)
    ELSE path

\* Lines 20-25: the dictionaries and the heap before the loop.
SearchInit(start, goal, grid) ==
    [g      |-> [c \in DOMAIN grid |-> IF c = start THEN 0 ELSE INF],
     came   |-> [c \in DOMAIN grid |-> None],
     open   |-> {<<HexDist(start, goal), start>>},
     status |-> "run",
     path   |-> <<>>]

\* Mutation of RelaxOne: the blocked flag of the neighbor is not looked at.
RelaxOne_EnterBlocked(st, current, neighbor, goal, grid) ==
    IF neighbor \notin DOMAIN grid
    THEN st
    ELSE LET tentative == AddCost(st.g[current], grid[neighbor].cost) IN
         IF tentative < st.g[neighbor]
         THEN [st EXCEPT
                 !.g[neighbor] = tentative,
                 !.came[neighbor] = current,
                 !.open = IF neighbor \in OpenNodes(st.open)
                          THEN st.open
                          ELSE st.open \cup {<<tentative + HexDist(neighbor, goal), neighbor>>}]
         ELSE st

\* Mutation of RelaxOne: relaxation on tentative_g <= g_score[neighbor].
RelaxOne_NonStrict(st, current, neighbor, goal, grid) ==
    IF neighbor \notin DOMAIN grid \/ grid[neighbor].blocked
    THEN st
    ELSE LET tentative == AddCost(st.g[current], grid[neighbor].cost) IN
         IF tentative <= st.g[neighbor]
         THEN [st EXCEPT
                 !.g[neighbor] = tentative,
                 !.came[neighbor] = current,
                 !.open = IF neighbor \in OpenNodes(st.open)
                          THEN st.open
                          ELSE st.open \cup {<<tentative + HexDist(neighbor, goal), neighbor>>}]
         ELSE st

\* Lines 40-51 for one neighbor of current.
RelaxOne(st, current, neighbor, goal, grid) ==
    IF neighbor \notin DOMAIN grid \/ grid[neighbor].blocked
    THEN st
    ELSE LET tentative == AddCost(st.g[current], grid[neighbor].cost) IN
         IF tentative < st.g[neighbor]
         THEN [st EXCEPT
                 !.g[neighbor] = tentative,
                 !.came[neighbor] = current,
                 !.open = IF neighbor \in OpenNodes(st.open)
                          THEN st.open
                          ELSE st.open \cup {<<tentative + HexDist(neighbor, goal), neighbor>>}]
         ELSE st

RECURSIVE RelaxFrom(_, _, _, _, _)
\* The for loop of line 39 from the i-th neighbor on.
RelaxFrom(st, current, i, goal, grid) ==
    IF i > 6 THEN st
    ELSE RelaxFrom(RelaxOne(st, current, get_neighbors(current[1], current[2])[i], goal, grid),
                   current, i + 1, goal, grid)

\* One pass of the while loop (lines 27-51), or the return of line 53.
SearchStep(st, start, goal, grid, max_distance) ==
    IF st.open = {}
    THEN [st EXCEPT !.status = "empty", !.path = <<>>]
    ELSE LET e == HeapMin(st.open)
             current == e[2]
             popped == [st EXCEPT !.open = st.open \ {e}]
         IN IF current = goal
            THEN [popped EXCEPT !.status = "found",
                                !.path = Truncate(reconstruct_path(st.came, current, start),
                                                  max_distance)]
            ELSE RelaxFrom(popped, current, 1, goal, grid)

RECURSIVE SearchRun(_, _, _, _, _)
SearchRun(st, start, goal, grid, max_distance) ==
    IF st.status # "run" THEN st
    ELSE SearchRun(SearchStep(st, start, goal, grid, max_distance),
                   start, goal, grid, max_distance)

\* Mutation of EarlyReturn: the test start == goal comes first.
EarlyReturn_SameFirst(start, goal, grid) ==
    IF start = goal THEN "same"
    ELSE IF start \notin DOMAIN grid \/ goal \notin DOMAIN grid THEN "absent"
    ELSE "search"

\* Lines 15-18: which return, if any, precedes the search.
EarlyReturn(start, goal, grid) ==
    IF start \notin DOMAIN grid \/ goal \notin DOMAIN grid THEN "absent"
    ELSE IF start = goal THEN "same"
    ELSE "search"

\* Mutation of EarlyPath: the empty list on both early returns.
EarlyPath_Empty(early, start) == <<>>

\* Lines 16 and 18: the list an early return hands back.
EarlyPath(early, start) == IF early = "same" THEN <<start>> ELSE <<>>

a_star(start, goal, grid, max_distance) ==
    LET early == EarlyReturn(start, goal, grid) IN
    IF early # "search" THEN EarlyPath(early, start)
    ELSE SearchRun(SearchInit(start, goal, grid), start, goal, grid, max_distance).path

(***************************************************************************)
(* Screen geometry: CombatSystem._hex_to_screen and HexGrid.pixel_to_hex.  *)
(* Pixels are taken relative to the centre of the screen.                  *)
(***************************************************************************)
\* Integer part of n / d for d > 0, as Python's int() takes it (toward zero).
Trunc(n, d) == IF n >= 0 THEN n \div d ELSE -((-n) \div d)

\* CombatSystem._hex_to_screen: x = size * 3/2 * q, y = size * (1.5 r + 0.5 q).
hex_to_screen(c) ==
    <<(HexSize * 3 * c[1]) \div 2, (HexSize * (3 * c[2] + c[1])) \div 2>>

\* Ten times the pixel centre HexGrid.hex_to_pixel gives a hex (flat top):
\* x = size * 3/2 * q, y = size * sqrt(3) * (q/2 + r), with sqrt(3) as
\* Sqrt3Milli / 1000.
hex_to_pixel10(c) ==
    <<HexSize * 15 * c[1], (HexSize * Sqrt3Milli * (c[1] + 2 * c[2])) \div 200>>

\* Squared distance, in tenths of a pixel, from pixel p to the centre of hex c.
PixelDist2(p, c) ==
    LET centre == hex_to_pixel10(c)
        dx == 10 * p[1] - centre[1]
        dy == 10 * p[2] - centre[2]
    IN dx * dx + dy * dy

\* HexGrid.pixel_to_hex (flat top): the approximate axial coordinates are
\* truncated, and of the nine hexes around them one whose centre is nearest
\* to the pixel is returned.  Between centres at exactly the same distance
\* the rounding of the floating-point distances decides, so the operator
\* gives the set of hexes the call can return.
pixel_to_hex(p) ==
    LET q0 == Trunc(2 * p[1], 3 * HexSize)
        r0 == Trunc(3000 * p[2] - Sqrt3Milli * p[1], 3 * HexSize * Sqrt3Milli)
        cands == {<<q0 + dq, r0 + dr>> : dq \in {-1, 0, 1}, dr \in {-1, 0, 1}}
        least == Min({PixelDist2(p, c) : c \in cands})
    IN {c \in cands : PixelDist2(p, c) = least}

\* Pixels the character can be at while it walks from pixel a towards pixel b
\* and has not arrived: a itself and points along the segment.
LerpPoints(a, b) ==
    {<<a[1] + ((b[1] - a[1]) * k) \div LerpSteps, a[2] + ((b[2] - a[2]) * k) \div LerpSteps>> :
        k \in 0..(LerpSteps - 1)}

(***************************************************************************)
(* client/game_state.py                                                    *)
(***************************************************************************)
\* GameState.update_hp: player_hp = max(0, player_hp - damage).
update_hp(hp, damage) == Max({0, hp - damage})

\* GameState.update_hp, the message it leaves: "Defeated" once the new HP is
\* not above 0.
update_hp_message(hp, damage, msg) ==
    IF update_hp(hp, damage) <= 0 THEN "Defeated" ELSE msg

\* GameState.get_mv_limit.
\* GameState.switch_turn.
switch_turn(turn) == IF turn = "player" THEN "enemy" ELSE "player"

\* An unknown mode is taken for 'exploration' and nothing is raised.
switch_mode_UnknownIsExploration(st, new_mode) ==
    IF new_mode = "combat"
    THEN [st EXCEPT !.game_mode = "combat", !.mv_limit = st.mv_limit]
    ELSE [st EXCEPT !.game_mode = "exploration", !.mv_limit = ExplorationMv,
                    !.combat_round = 0, !.commanded_path = None]

\* GameState.switch_mode on the record st of the fields it reads and writes
\* (game_mode, mv_limit, combat_round, commanded_path) and of raised, the
\* exception it ends with.
switch_mode(st, new_mode) ==
    IF new_mode = "combat"
    THEN [st EXCEPT !.game_mode = "combat", !.mv_limit = st.mv_limit]
    ELSE IF new_mode = "exploration"
    THEN [st EXCEPT !.game_mode = "exploration", !.mv_limit = ExplorationMv,
                    !.combat_round = 0, !.commanded_path = None]
    ELSE [st EXCEPT !.raised = "ValueError"]

get_mv_limit(mode, limit) == IF mode = "exploration" THEN ExplorationMv ELSE limit

\* The nearest enemy, dead or alive.
get_closest_enemy_AnyEnemy(ppos, ens) ==
    LET alive == 1..Len(ens) IN
    IF alive = {} THEN 0
    ELSE LET least == Min({HexDist(ppos, ens[i].pos) : i \in alive})
         IN Min({i \in alive : HexDist(ppos, ens[i].pos) = least})

\* GameState.get_closest_enemy: the index of the first living enemy at the
\* least hex distance from the player, 0 (None) when no enemy lives.
get_closest_enemy(ppos, ens) ==
    LET alive == {i \in 1..Len(ens) : ens[i].hp > 0} IN
    IF alive = {} THEN 0
    ELSE LET least == Min({HexDist(ppos, ens[i].pos) : i \in alive})
         IN Min({i \in alive : HexDist(ppos, ens[i].pos) = least})

(***************************************************************************)
(* client/enemy.py                                                         *)
(*                                                                         *)
(* An enemy is a record of the attributes of Enemy; attack_this_turn is    *)
(* "unset" until a statement assigns it (__init__ does not), then "True"   *)
(* or "False".                                                             *)
(***************************************************************************)
Enemy(start_pos) ==
    [pos |-> start_pos, hp |-> EnemyHp, max_hp |-> EnemyHp, mv_limit |-> EnemyMv,
     queued_path |-> <<>>, current_path_index |-> 0, is_moving |-> FALSE,
     targeting_player |-> FALSE, attack_this_turn |-> "unset"]

PyBool(b) == IF b THEN "True" ELSE "False"

\* Order in which the scans over q and r visit the hexes.
CellLess(a, b) == a[1] < b[1] \/ (a[1] = b[1] /\ a[2] < b[2])

FirstCell(S) == CHOOSE c \in S : \A o \in S : o = c \/ CellLess(c, o)

\* The hexes of the grid the loops "for q in range(-mv, mv + 1): for r in
\* range(-mv, mv + 1): if abs(q + r) > mv: continue" visit around pos.
ScanRange(pos, mv, grid_tiles) ==
    {c \in DOMAIN grid_tiles :
        /\ Abs(c[1] - pos[1]) <= mv /\ Abs(c[2] - pos[2]) <= mv
        /\ Abs((c[1] - pos[1]) + (c[2] - pos[2])) <= mv}

\* Enemy.find_free_hex_adjacent_to_target: the first scanned free hex at the
\* least distance from the target.
find_free_hex_adjacent_to_target(mv, target_pos, grid_tiles, occupied) ==
    LET cand == {c \in ScanRange(target_pos, mv, grid_tiles) :
                    /\ Abs(c[1]) <= 50 /\ Abs(c[2]) <= 50
                    /\ ~grid_tiles[c].blocked /\ c \notin occupied}
    IN IF cand = {} THEN None
       ELSE LET least == Min({HexDist(c, target_pos) : c \in cand})
            IN FirstCell({c \in cand : HexDist(c, target_pos) = least})

\* Enemy.find_retreat_position: the first scanned free hex at the greatest
\* distance (above 0) from the player.
find_retreat_position(pos, mv, player_pos, grid_tiles, occupied) ==
    LET cand == {c \in ScanRange(pos, mv, grid_tiles) :
                    /\ ~grid_tiles[c].blocked /\ Abs(c[1]) <= 10 /\ Abs(c[2]) <= 10
                    /\ c \notin occupied /\ HexDist(c, player_pos) > 0}
    IN IF cand = {} THEN None
       ELSE LET most == Max({HexDist(c, player_pos) : c \in cand})
            IN FirstCell({c \in cand : HexDist(c, player_pos) = most})

\* Enemy.find_patrol_position: random.choice over the free hexes in range;
\* the set of values it can return.
find_patrol_position(pos, mv, grid_tiles, occupied) ==
    LET cand == {c \in ScanRange(pos, mv, grid_tiles) :
                    /\ ~grid_tiles[c].blocked /\ Abs(c[1]) <= 10 /\ Abs(c[2]) <= 10
                    /\ c \notin occupied}
    IN IF cand = {} THEN {None} ELSE cand

\* Lines 84-86 of calculate_ai_path, occupied=None: the hexes of the living
\* enemies, the enemy's own among them, and the player's.
DefaultOccupied(ens, player_pos) ==
    {ens[i].pos : i \in {j \in 1..Len(ens) : ens[j].hp > 0}} \cup {player_pos}

\* Lines 87-93 of calculate_ai_path: the goal hexes it can choose (one unless
\* the behavior is patrol), None when it finds none.
GoalHexes(enem, player_pos, grid_tiles, occupied, behavior) ==
    IF behavior = "retreat"
    THEN {find_retreat_position(enem.pos, enem.mv_limit, player_pos, grid_tiles, occupied)}
    ELSE IF behavior = "patrol"
    THEN find_patrol_position(enem.pos, enem.mv_limit, grid_tiles, occupied)
    ELSE {find_free_hex_adjacent_to_target(enem.mv_limit, player_pos, grid_tiles, occupied)}

\* Lines 95-105 of calculate_ai_path: the path to the chosen goal.
PathToGoal(enem, player_pos, grid_tiles, goal_hex) ==
    LET start_hex == enem.pos
        modified_tiles == [k \in DOMAIN grid_tiles |->
                             [grid_tiles[k] EXCEPT !.blocked =
                                 grid_tiles[k].blocked \/ (k # start_hex /\ k = player_pos)]]
    IN IF goal_hex # None /\ goal_hex # start_hex
       THEN a_star(start_hex, goal_hex, modified_tiles, enem.mv_limit)
       ELSE <<>>

\* Enemy.calculate_ai_path with occupied=None: the set of paths it can return
\* (one path unless the behavior is patrol).
calculate_ai_path(enem, player_pos, grid_tiles, ens, behavior) ==
    {PathToGoal(enem, player_pos, grid_tiles, goal_hex) :
        goal_hex \in GoalHexes(enem, player_pos, grid_tiles,
                               DefaultOccupied(ens, player_pos), behavior)}

\* Enemy.start_movement.
start_movement(enem, path) ==
    [enem EXCEPT !.queued_path = path, !.current_path_index = 0,
                 !.is_moving = IF path # <<>> THEN TRUE ELSE @]

\* The end of the path is never noticed: the movement flag stays raised.
update_movement_NeverDone(enem, arrives) ==
    IF /\ enem.is_moving /\ enem.queued_path # <<>>
       /\ enem.current_path_index < Len(enem.queued_path) /\ arrives
    THEN [enem EXCEPT !.pos = enem.queued_path[enem.current_path_index + 1],
                      !.current_path_index = @ + 1]
    ELSE enem

\* Enemy.update_movement; arrives tells whether this frame's step brings the
\* sprite within reach of the target hex (dist < 10) or only moves it closer.
update_movement(enem, arrives) ==
    LET stepped ==
            IF /\ enem.is_moving /\ enem.queued_path # <<>>
               /\ enem.current_path_index < Len(enem.queued_path) /\ arrives
            THEN [enem EXCEPT !.pos = enem.queued_path[enem.current_path_index + 1],
                              !.current_path_index = @ + 1]
            ELSE enem
    IN IF stepped.queued_path # <<>> /\ stepped.current_path_index >= Len(stepped.queued_path)
       THEN [stepped EXCEPT !.queued_path = <<>>, !.current_path_index = 0, !.is_moving = FALSE]
       ELSE stepped

\* Chase has precedence over retreat.
TakeTurnBehavior_ChaseFirst(enem, player_pos) ==
    IF HexDist(enem.pos, player_pos) <= ChaseDistance THEN "chase"
    ELSE IF enem.hp <= RetreatThreshold THEN "retreat"
    ELSE "patrol"

\* Lines 197-204 of Enemy.take_turn: the behavior it decides on.
TakeTurnBehavior(enem, player_pos) ==
    IF enem.hp <= RetreatThreshold THEN "retreat"
    ELSE IF HexDist(enem.pos, player_pos) <= ChaseDistance THEN "chase"
    ELSE "patrol"

\* Enemy.take_turn: the set of states it can leave the enemy in.
take_turn(enem, ens, player_pos, grid_tiles, attack_enabled) ==
    LET dist == HexDist(enem.pos, player_pos)
        behavior == TakeTurnBehavior(enem, player_pos)
        attack == attack_enabled /\ dist <= 3
        decided == [enem EXCEPT !.attack_this_turn = PyBool(attack),
                                !.targeting_player = (behavior = "chase")]
        paths == IF attack THEN {<<>>}
                 ELSE calculate_ai_path(enem, player_pos, grid_tiles, ens, behavior)
    IN {IF path # <<>> /\ ~enem.is_moving THEN start_movement(decided, path) ELSE decided :
          path \in paths}

(***************************************************************************)
(* client/ai_system.py                                                     *)
(***************************************************************************)
\* AISystem._decide_behavior: the pair (behavior, target_pos).
decide_behavior(enemy, player_hp, player_pos) ==
    IF player_hp <= 0 THEN [behavior |-> "patrol", target_pos |-> enemy.pos]
    ELSE IF 10 * enemy.hp <= AiRetreatTenths * enemy.max_hp
    THEN [behavior |-> "retreat", target_pos |-> enemy.pos]
    ELSE IF HexDist(enemy.pos, player_pos) <= AiChaseDistance
    THEN [behavior |-> "chase", target_pos |-> player_pos]
    ELSE [behavior |-> "patrol", target_pos |-> enemy.pos]

\* The occupied argument AISystem.update_ai builds for the k-th enemy: the
\* hexes of the other living enemies.
OthersOccupied(ens, k) ==
    {ens[i].pos : i \in {j \in 1..Len(ens) : ens[j].hp > 0 /\ j # k}}

\* Lines 46-66 of AISystem.update_ai for the k-th enemy: the goal hexes
\* calculate_ai_path can choose for the decided behavior, None when update_ai
\* plans no path (patrol keeps target_pos at the enemy's own position).
update_ai_goals(ens, k, player_hp, player_pos, grid_tiles) ==
    LET behavior == decide_behavior(ens[k], player_hp, player_pos).behavior
        occupied == OthersOccupied(ens, k)
        found == GoalHexes(ens[k], player_pos, grid_tiles, occupied, behavior)
    IN IF behavior = "patrol" \/ (behavior = "retreat" /\ found = {None})
       THEN {None} ELSE found

(***************************************************************************)
(* client/actors/ai.py                                                     *)
(***************************************************************************)
\* EnemyAI.find_retreat_position: the scan "for q in range(mv_limit): for r
\* in range(mv_limit)" visits offsets 0..mv_limit-1 only and looks at the
\* blocked flag only.
EnemyAI_find_retreat_position(position, mv, player_pos, grid_tiles) ==
    LET cand == {c \in DOMAIN grid_tiles :
                    /\ c[1] - position[1] \in 0..(mv - 1)
                    /\ c[2] - position[2] \in 0..(mv - 1)
                    /\ Abs((c[1] - position[1]) + (c[2] - position[2])) <= mv
                    /\ ~grid_tiles[c].blocked /\ HexDist(c, player_pos) > 0}
    IN IF cand = {} THEN None
       ELSE LET most == Max({HexDist(c, player_pos) : c \in cand})
            IN FirstCell({c \in cand : HexDist(c, player_pos) = most})

(***************************************************************************)
(* State                                                                   *)
(***************************************************************************)
VARIABLES
    s_grid,     \* a_star call under study: the grid argument
    s_start,    \* ... start
    s_goal,     \* ... goal
    s_budget,   \* ... max_distance (NoBudget or an int)
    s_st,       \* ... the search state of the running call
    s_pc,       \* ... "call" (not entered), "loop", "done"
    s_result,   \* ... the returned list
    tiles,                  \* HexGrid.tiles: cell -> tile
    game_mode,              \* GameState.game_mode
    mv_limit,               \* GameState.mv_limit
    player_pos,             \* GameState.player_pos
    player_hp,              \* GameState.player_hp
    is_moving,              \* GameState.is_moving
    queued_path,            \* GameState.queued_path
    current_path_index,     \* GameState.current_path_index
    commanded_path,         \* GameState.commanded_path (None or a path)
    enemies,                \* GameState.enemies: the list of Enemy records
    enemy_planned_paths,    \* CombatSystem.enemy_planned_paths: list of <<enemy index, path>>
    last_enemy_plan_time,   \* CombatSystem.last_enemy_plan_time: "never" (0.0) or "set"
    ranged_attack_enabled,  \* core.config.ENEMY_RANGED_ATTACK_ENABLED
    raised,                 \* the exception that ended the program, or "none"
    char_screen_pos,        \* GameState.char_screen_pos: the pixel the character last stood at
    path_validated,         \* GameState.path_validated
    win_message,            \* GameState.win_message: "", "Victory" or "Defeated"
    threads,                \* the validation threads started: request, stage, response
    ticks,                  \* number of round ticks executed
    clicks,                 \* number of planning calls made
    keys,                   \* number of key presses handled
    combat_round,           \* GameState.combat_round
    current_turn,           \* GameState.current_turn: "player" or "enemy"
    h_a,                    \* distances under study: a coordinate
    h_b,                    \* ... a second
    h_c,                    \* ... a third
    h_dist,                 \* ... None, or the values hex_distance returned between them
    d_enemy,                \* decision under study: the enemy deciding
    d_player_pos,           \* ... the player's hex
    d_player_hp,            \* ... the player's HP
    d_proc,                 \* ... the procedure that decided, or "none"
    d_behavior,             \* ... the behavior it decided on, or "none"
    d_grid,                 \* ... the grid_tiles argument
    d_enemies,              \* ... the enemies argument; d_enemy is its first
    d_goal,                 \* ... the goal hex chosen, or None
    events,                 \* Scheduler.events
    current_time,           \* Scheduler.current_time
    ran,                    \* the events whose callbacks were called, in call order
    scheduled,              \* number of Scheduler.schedule calls made
    max_retries,            \* NetworkClient.max_retries
    retry_delay,            \* NetworkClient.retry_delay
    backoff_factor,         \* NetworkClient.backoff_factor
    post_responses,         \* what requests.post does on the successive requests of a call
    post_result             \* None, or what the last post_with_retry call did

searchVars == <<s_grid, s_start, s_goal, s_budget, s_st, s_pc, s_result>>

combatVars ==
    <<tiles, game_mode, mv_limit, player_pos, player_hp, is_moving, queued_path,
      current_path_index, commanded_path, enemies, enemy_planned_paths,
      last_enemy_plan_time, ranged_attack_enabled, raised, char_screen_pos,
      path_validated, win_message, threads, ticks, clicks, keys>>

decideVars ==
    <<d_enemy, d_player_pos, d_player_hp, d_proc, d_behavior, d_grid, d_enemies, d_goal>>

turnVars == <<combat_round, current_turn>>

hexVars == <<h_a, h_b, h_c, h_dist>>

schedVars == <<events, current_time, ran, scheduled>>

clientVars == <<max_retries, retry_delay, backoff_factor, post_responses, post_result>>

vars == <<searchVars, combatVars, decideVars, turnVars, hexVars, schedVars, clientVars>>

\* GameController.__init__: the player at [0, 0], enemies at (0, 1) and (1, 3).
EnemyStarts == << <<0, 1>>, <<1, 3>> >>

CombatCells == (0..MaxCQ) \X (0..MaxCR)

\* HexGrid._initialize_grid draws every tile from plain, forest and wall;
\* here at most MaxRoughC tiles are not plain.
CombatGrids ==
    UNION {{[c \in CombatCells |-> IF c \in S THEN Tile(f[c]) ELSE Tile("plain")] :
              f \in [S -> {"forest", "wall"}]} :
           S \in {R \in SUBSET CombatCells : Cardinality(R) <= MaxRoughC}}

\* The state GameController.__init__ builds, on the grid g.
CombatStart(g, ranged) ==
    /\ tiles = g
    /\ game_mode = "exploration"
    /\ mv_limit = MvLimit
    /\ player_pos = <<0, 0>>
    /\ player_hp = PlayerHp
    /\ is_moving = FALSE
    /\ queued_path = <<>>
    /\ current_path_index = 0
    /\ commanded_path = None
    /\ enemies = [i \in 1..Len(EnemyStarts) |-> Enemy(EnemyStarts[i])]
    /\ enemy_planned_paths = <<>>
    /\ last_enemy_plan_time = "never"
    /\ ranged_attack_enabled = ranged
    /\ raised = "none"
    /\ char_screen_pos = <<0, 0>>
    /\ path_validated = FALSE
    /\ win_message = ""
    /\ threads = {}
    /\ ticks = 0
    /\ clicks = 0
    /\ keys = 0
    /\ combat_round = 0
    /\ current_turn = "player"

\* No distance under study.
NoDistance == h_a = <<0, 0>> /\ h_b = <<0, 0>> /\ h_c = <<0, 0>> /\ h_dist = None

\* Scheduler.__init__ at time 0, before any schedule call.
NoSchedule == events = <<>> /\ current_time = 0 /\ ran = <<>> /\ scheduled = 0

\* NetworkClient.__init__ with its default arguments, before any call.
NoPost ==
    /\ max_retries = 3 /\ retry_delay = 1 /\ backoff_factor = 2
    /\ post_responses = <<>> /\ post_result = None

\* No decision under study.
NoDecision ==
    /\ d_enemy = Enemy(<<0, 0>>) /\ d_player_pos = <<0, 0>> /\ d_player_hp = PlayerHp
    /\ d_proc = "none" /\ d_behavior = "none"
    /\ d_grid = <<>> /\ d_enemies = <<>> /\ d_goal = None

IdleSearch == [g |-> <<>>, came |-> <<>>, open |-> {}, status |-> "idle", path |-> <<>>]

\* No a_star call under study.
NoSearch ==
    /\ s_grid = <<>> /\ s_start = <<0, 0>> /\ s_goal = <<0, 0>> /\ s_budget = NoBudget
    /\ s_st = IdleSearch /\ s_pc = "idle" /\ s_result = <<>>

(***************************************************************************)
(* Search runs: a_star called on every grid of the bounded family          *)
(***************************************************************************)
SearchCells == (0..MaxQ) \X (0..MaxR)
\* One coordinate outside every search grid.
OffGrid == <<MaxQ + 1, 0>>
SearchCoords == SearchCells \cup {OffGrid}
Budgets == {NoBudget} \cup (0..MaxBudget)

\* The tiles a_star meets besides open plain ground: forest and wall as Tile
\* builds them, and tiles whose blocked flag the occupancy code of
\* plan_player_path has overwritten: a plain tile blocked while an enemy stands
\* on it during the player's search, a wall unblocked by the reset after it.
RoughTiles ==
    {Tile("forest"), Tile("wall"),
     [Tile("plain") EXCEPT !.blocked = TRUE],
     [Tile("wall") EXCEPT !.blocked = FALSE]}

RoughSets == {S \in SUBSET SearchCells : Cardinality(S) <= MaxRough}

SearchGrids ==
    UNION {{[c \in SearchCells |-> IF c \in S THEN f[c] ELSE Tile("plain")] :
              f \in [S -> RoughTiles]} : S \in RoughSets}

InitSearch ==
    /\ s_grid \in SearchGrids
    /\ s_start \in SearchCoords
    /\ s_goal \in SearchCoords
    /\ s_budget \in Budgets
    /\ s_st = IdleSearch
    /\ s_pc = "call"
    /\ s_result = <<>>
    /\ CombatStart([c \in CombatCells |-> Tile("plain")], FALSE)
    /\ NoDecision
    /\ NoDistance
    /\ NoSchedule
    /\ NoPost

\* Lines 15-25: the early returns, or the set-up of the search.
AStarEnter ==
    /\ s_pc = "call"
    /\ LET early == EarlyReturn(s_start, s_goal, s_grid) IN
       IF early # "search"
       THEN s_pc' = "done" /\ s_result' = EarlyPath(early, s_start) /\ s_st' = s_st
       ELSE s_pc' = "loop" /\ s_result' = s_result
            /\ s_st' = SearchInit(s_start, s_goal, s_grid)
    /\ UNCHANGED <<s_grid, s_start, s_goal, s_budget, combatVars, decideVars, turnVars, hexVars, schedVars, clientVars>>

\* One pass of the while loop, with the return it may reach.
AStarIterate ==
    /\ s_pc = "loop"
    /\ LET nxt == SearchStep(s_st, s_start, s_goal, s_grid, s_budget) IN
       /\ s_st' = nxt
       /\ IF nxt.status = "run"
          THEN s_pc' = "loop" /\ s_result' = s_result
          ELSE s_pc' = "done" /\ s_result' = nxt.path
    /\ UNCHANGED <<s_grid, s_start, s_goal, s_budget, combatVars, decideVars, turnVars, hexVars, schedVars, clientVars>>

NextSearch == AStarEnter \/ AStarIterate

SpecSearch == InitSearch /\ [][NextSearch]_vars /\ WF_vars(NextSearch)

(***************************************************************************)
(* client/combat_system.py, client/input_handler.py                        *)
(***************************************************************************)
LivingAt(ens, c) == \E i \in 1..Len(ens) : ens[i].hp > 0 /\ ens[i].pos = c

\* "for enem in alive_enemies: grid_tiles[tuple(enem.pos)].blocked = flag".
SetOccupiedBlocked(grid_tiles, ens, flag) ==
    [c \in DOMAIN grid_tiles |->
        IF LivingAt(ens, c) THEN [grid_tiles[c] EXCEPT !.blocked = flag] ELSE grid_tiles[c]]

\* The player's search of plan_player_path and _handle_combat_mode_click:
\* block the living enemies' hexes, run a_star, reset the blocks.
PlayerSearch(goal) ==
    [path  |-> a_star(player_pos, goal, SetOccupiedBlocked(tiles, enemies, TRUE),
                      get_mv_limit(game_mode, mv_limit)),
     tiles |-> SetOccupiedBlocked(SetOccupiedBlocked(tiles, enemies, TRUE), enemies, FALSE)]

\* Lines 86-90 of CombatSystem._plan_enemy_actions: the behavior planned for
\* an enemy; retreat_threshold (3) is used as a factor of max_hp.
PlanEnemyBehavior(enem, ppos) ==
    IF enem.hp <= enem.max_hp * RetreatThreshold THEN "retreat"
    ELSE IF HexDist(enem.pos, ppos) <= ChaseDistance THEN "chase"
    ELSE "patrol"

RECURSIVE PlanEnemiesFrom(_, _, _, _, _)
\* The loop of CombatSystem._plan_enemy_actions from the i-th enemy on: the
\* set of outcomes [enemies, planned].
PlanEnemiesFrom(i, ens, planned, ppos, grid_tiles) ==
    IF i > Len(ens) THEN {[enemies |-> ens, planned |-> planned]}
    ELSE IF ens[i].hp <= 0 THEN PlanEnemiesFrom(i + 1, ens, planned, ppos, grid_tiles)
    ELSE LET dist == HexDist(ens[i].pos, ppos)
             behavior == PlanEnemyBehavior(ens[i], ppos)
         IN UNION {IF path # <<>>
                   THEN PlanEnemiesFrom(i + 1, ens, Append(planned, <<i, path>>), ppos, grid_tiles)
                   ELSE PlanEnemiesFrom(i + 1,
                            [ens EXCEPT ![i].attack_this_turn = PyBool(dist <= 3)],
                            planned, ppos, grid_tiles) :
                   path \in calculate_ai_path(ens[i], ppos, grid_tiles, ens, behavior)}

RECURSIVE TakeTurnsFrom(_, _, _, _)
\* "for enem in enemies: if enem.hp > 0: enem.take_turn(...)" from the i-th on.
TakeTurnsFrom(i, ens, ppos, grid_tiles) ==
    IF i > Len(ens) THEN {ens}
    ELSE IF ens[i].hp <= 0 THEN TakeTurnsFrom(i + 1, ens, ppos, grid_tiles)
    ELSE UNION {TakeTurnsFrom(i + 1, [ens EXCEPT ![i] = turned], ppos, grid_tiles) :
                   turned \in take_turn(ens[i], ens, ppos, grid_tiles, FALSE)}

RECURSIVE CommitEnemyPaths(_, _, _)
\* Lines 117-121 of execute_round_tick from the k-th stored plan on.
CommitEnemyPaths(k, planned, ens) ==
    IF k > Len(planned) THEN ens
    ELSE CommitEnemyPaths(k + 1, planned,
             [ens EXCEPT ![planned[k][1]].queued_path = planned[k][2],
                         ![planned[k][1]].current_path_index = 0,
                         ![planned[k][1]].is_moving = TRUE])

\* Lines 136-148 of _resolve_combat_attacks: the player's auto-attack; the
\* set of enemy lists it can leave.
PlayerAutoAttack(ens, php, moving, ppos) ==
    LET closest == get_closest_enemy(ppos, ens) IN
    IF php > 0 /\ ~moving /\ closest # 0 /\ HexDist(ppos, ens[closest].pos) = 1
    THEN {[ens EXCEPT ![closest].hp = @ - damage,
                      ![closest].pos = IF ens[closest].hp - damage <= 0
                                       THEN <<-999, -999>> ELSE @] :
            damage \in 1..DiceSides}
    ELSE {ens}

RECURSIVE EnemyAttacksFrom(_, _, _, _, _, _)
\* Lines 151-168 of _resolve_combat_attacks from the i-th enemy on: the set of
\* outcomes [enemies, player_hp, win_message, raised].  Reading
\* attack_this_turn of an enemy that never had it assigned raises
\* AttributeError.
EnemyAttacksFrom(i, ens, php, msg, ppos, ranged) ==
    IF i > Len(ens)
    THEN {[enemies |-> ens, player_hp |-> php, win_message |-> msg, raised |-> "none"]}
    ELSE IF ens[i].hp <= 0 THEN EnemyAttacksFrom(i + 1, ens, php, msg, ppos, ranged)
    ELSE IF ens[i].attack_this_turn = "unset"
    THEN {[enemies |-> ens, player_hp |-> php, win_message |-> msg,
           raised |-> "AttributeError"]}
    ELSE IF ens[i].attack_this_turn = "False"
    THEN EnemyAttacksFrom(i + 1, ens, php, msg, ppos, ranged)
    ELSE LET dist == HexDist(ens[i].pos, ppos)
             damages == IF dist = 1 THEN 1..DiceSides
                        ELSE IF dist <= 3 /\ ranged
                        THEN {Max({0, roll - (dist - 1)}) : roll \in 1..DiceSides}
                        ELSE {0}
         IN UNION {EnemyAttacksFrom(i + 1, [ens EXCEPT ![i].attack_this_turn = "False"],
                                    IF damage # 0 THEN update_hp(php, -damage) ELSE php,
                                    IF damage # 0 THEN update_hp_message(php, -damage, msg)
                                    ELSE msg,
                                    ppos, ranged) :
                   damage \in damages}

\* CombatSystem._resolve_combat_attacks.
resolve_combat_attacks(ens, php, msg, moving, ppos, ranged) ==
    UNION {EnemyAttacksFrom(1, attacked, php, msg, ppos, ranged) :
             attacked \in PlayerAutoAttack(ens, php, moving, ppos)}

Running == raised = "none"

\* The pixel the moving character is walking to, its own when it has no target.
CharTarget ==
    IF is_moving /\ queued_path # <<>> /\ current_path_index < Len(queued_path)
    THEN hex_to_screen(queued_path[current_path_index + 1])
    ELSE char_screen_pos

\* The pixels state.char_screen_pos can hold now.
CharPoints == LerpPoints(char_screen_pos, CharTarget)

\* server/app.py handle_move_path: the grid rebuilt from the posted tiles.
ServerGrid(grid) ==
    [c \in DOMAIN grid |->
        IF grid[c].cost = INF
        THEN [Tile(grid[c].type) EXCEPT !.cost = INF, !.blocked = grid[c].blocked]
        ELSE Tile(grid[c].type)]

\* server/app.py handle_move_path on the data of a request.
handle_move_path(data) ==
    [raised |-> "none", status |-> 200,
     approved_path |-> a_star(data.start, data.goal, ServerGrid(data.grid),
                              IF data.game_mode = "combat" THEN ServerCombatBudget
                              ELSE NoBudget)]

\* A validation thread just started: the path it was given (none in
\* exploration), the posted data, no response yet.  Its stage is "sent" while
\* requests.post is under way, "answered" once that has returned or raised,
\* "ended" once the thread has handled the outcome.
NewThread(kind, path, start, goal) ==
    [kind |-> kind, path |-> path,
     data |-> [start |-> start, goal |-> goal, grid |-> tiles', game_mode |-> game_mode],
     stage |-> "sent",
     response |-> [raised |-> "none", status |-> 0, approved_path |-> <<>>]]

\* What requests.post can give a thread: the server's answer, an answer with
\* an error status, or a RequestException (timeout, connection error).
Responses(data) ==
    {handle_move_path(data),
     [raised |-> "none", status |-> ErrorStatus, approved_path |-> <<>>],
     [raised |-> "RequestException", status |-> 0, approved_path |-> <<>>]}

\* CombatSystem.plan_player_path(goal_hex).
PlanPlayerPath(goal) ==
    /\ Running /\ clicks < MaxClicks
    /\ clicks' = clicks + 1
    /\ IF is_moving
       THEN UNCHANGED <<tiles, commanded_path, enemies, enemy_planned_paths, last_enemy_plan_time>>
       ELSE LET found == PlayerSearch(goal) IN
            /\ tiles' = found.tiles
            /\ IF found.path = <<>>
               THEN UNCHANGED <<commanded_path, enemies, enemy_planned_paths, last_enemy_plan_time>>
               ELSE /\ commanded_path' = found.path
                    /\ \/ /\ last_enemy_plan_time = "set"    \* called again within 0.1 s
                          /\ UNCHANGED <<enemies, enemy_planned_paths, last_enemy_plan_time>>
                       \/ /\ last_enemy_plan_time' = "set"
                          /\ \E out \in PlanEnemiesFrom(1, enemies, <<>>, player_pos, found.tiles) :
                                /\ enemies' = out.enemies
                                /\ enemy_planned_paths' = out.planned
    /\ UNCHANGED <<game_mode, mv_limit, player_pos, player_hp, is_moving, queued_path,
                   current_path_index, ranged_attack_enabled, raised, char_screen_pos,
                   path_validated, win_message, threads, ticks, keys, searchVars, decideVars, turnVars, hexVars, schedVars, clientVars>>

\* InputHandler.handle_mouse_click in exploration mode:
\* _handle_exploration_mode_click.
HandleExplorationModeClick(goal) ==
    /\ Running /\ clicks < MaxClicks
    /\ player_hp > 0 /\ game_mode = "exploration"
    /\ clicks' = clicks + 1
    /\ \E pixel \in CharPoints : \E current_hex \in pixel_to_hex(pixel) :
          LET path == a_star(current_hex, goal, tiles, LocalMvLimit) IN
          /\ char_screen_pos' = pixel
          /\ player_pos' = current_hex
          /\ tiles' = tiles
          /\ IF path = <<>>
             THEN UNCHANGED <<queued_path, current_path_index, is_moving, path_validated,
                              threads>>
             ELSE /\ queued_path' = path
                  /\ current_path_index' = 0
                  /\ is_moving' = TRUE
                  /\ path_validated' = FALSE
                  /\ threads' = threads \cup {NewThread("exploration", <<>>, current_hex, goal)}
    /\ UNCHANGED <<game_mode, mv_limit, player_hp, commanded_path, enemies,
                   enemy_planned_paths, last_enemy_plan_time, ranged_attack_enabled, raised,
                   win_message, ticks, keys, searchVars, decideVars, turnVars, hexVars, schedVars, clientVars>>

\* InputHandler.handle_mouse_click in combat mode: _handle_combat_mode_click.
HandleCombatModeClick(goal) ==
    /\ Running /\ clicks < MaxClicks
    /\ player_hp > 0 /\ game_mode = "combat"
    /\ clicks' = clicks + 1
    /\ IF is_moving
       THEN UNCHANGED <<tiles, commanded_path, enemies, threads>>
       ELSE LET found == PlayerSearch(goal) IN
            /\ tiles' = found.tiles
            /\ IF found.path = <<>>
               THEN UNCHANGED <<commanded_path, enemies, threads>>
               ELSE /\ commanded_path' = found.path
                    /\ enemies' \in TakeTurnsFrom(1, enemies, player_pos, found.tiles)
                    /\ threads' = threads \cup {NewThread("combat", found.path, player_pos, goal)}
    /\ UNCHANGED <<game_mode, mv_limit, player_pos, player_hp, is_moving, queued_path,
                   current_path_index, enemy_planned_paths, last_enemy_plan_time,
                   ranged_attack_enabled, raised, char_screen_pos, path_validated,
                   win_message, ticks, keys, searchVars, decideVars, turnVars, hexVars, schedVars, clientVars>>

\* InputHandler.handle_keydown with 'c' or 'e', and GameState.switch_mode.
\* Key 'c' lowers is_moving, which leaves the character where it is on its
\* way.
HandleKeydown(key) ==
    /\ Running /\ keys < MaxKeys
    /\ keys' = keys + 1
    /\ IF key = "c"
       THEN /\ game_mode' = "combat" /\ is_moving' = FALSE
            /\ char_screen_pos' \in CharPoints
            /\ UNCHANGED <<mv_limit, commanded_path, combat_round>>
       ELSE /\ game_mode' = "exploration" /\ mv_limit' = ExplorationMv
            /\ commanded_path' = None /\ combat_round' = 0
            /\ UNCHANGED <<is_moving, char_screen_pos>>
    /\ UNCHANGED <<tiles, player_pos, player_hp, queued_path, current_path_index, enemies,
                   enemy_planned_paths, last_enemy_plan_time, ranged_attack_enabled, raised,
                   path_validated, win_message, threads, ticks, clicks, current_turn,
                   searchVars, decideVars, hexVars, schedVars, clientVars>>

\* CombatSystem.execute_round_tick, called by
\* GameController._handle_combat_round_tick in combat mode.
ExecuteRoundTick ==
    /\ Running /\ ticks < MaxTicks
    /\ game_mode = "combat"
    /\ ticks' = ticks + 1
    /\ LET commit == commanded_path # None /\ ~is_moving
           moving == commit \/ is_moving
           committed == CommitEnemyPaths(1, enemy_planned_paths, enemies)
       IN /\ IF commit
             THEN /\ queued_path' = commanded_path /\ current_path_index' = 0
                  /\ is_moving' = TRUE /\ commanded_path' = None
             ELSE UNCHANGED <<queued_path, current_path_index, is_moving, commanded_path>>
          /\ \E out \in resolve_combat_attacks(committed, player_hp, win_message, moving,
                                               player_pos, ranged_attack_enabled) :
                /\ enemies' = out.enemies
                /\ player_hp' = out.player_hp
                /\ win_message' = out.win_message
                /\ raised' = out.raised
                /\ enemy_planned_paths' =
                      IF out.raised = "none" THEN <<>> ELSE enemy_planned_paths
    /\ UNCHANGED <<tiles, game_mode, mv_limit, player_pos, last_enemy_plan_time,
                   ranged_attack_enabled, char_screen_pos, path_validated, threads,
                   clicks, keys, searchVars, decideVars, turnVars, hexVars, schedVars, clientVars>>

\* For each enemy, whether its sprite comes within reach of its target hex in
\* this call of update_movement; only a living, moving enemy can.
Arrivals(ens) ==
    {arrive \in [1..Len(ens) -> BOOLEAN] :
        \A i \in 1..Len(ens) : arrive[i] => (ens[i].hp > 0 /\ ens[i].is_moving)}

\* CombatSystem.update_positions, one frame: each moving actor either arrives
\* at its target hex in this frame or only moves closer to it.
UpdatePositions ==
    /\ Running
    /\ \E arrives \in {a \in BOOLEAN : a => is_moving} :
          LET step == /\ is_moving /\ queued_path # <<>>
                      /\ current_path_index < Len(queued_path) /\ arrives
              index == IF step THEN current_path_index + 1 ELSE current_path_index
              done == queued_path # <<>> /\ index >= Len(queued_path)
          IN /\ player_pos' = IF step THEN queued_path[current_path_index + 1] ELSE player_pos
             /\ char_screen_pos' = IF step THEN CharTarget ELSE char_screen_pos
             /\ queued_path' = IF done THEN <<>> ELSE queued_path
             /\ current_path_index' = IF done THEN 0 ELSE index
             /\ is_moving' = IF done THEN FALSE ELSE is_moving
    /\ \E arrive \in Arrivals(enemies) :
          enemies' = [i \in 1..Len(enemies) |->
                         IF enemies[i].hp > 0 THEN update_movement(enemies[i], arrive[i])
                         ELSE enemies[i]]
    /\ UNCHANGED <<tiles, game_mode, mv_limit, player_hp, commanded_path, enemy_planned_paths,
                   last_enemy_plan_time, ranged_attack_enabled, raised, path_validated,
                   win_message, threads, ticks, clicks, keys, searchVars, decideVars, turnVars, hexVars, schedVars, clientVars>>

\* Clicked hexes: the player's own at the start, a neighbor of it, a far one.
ClickGoals == {<<0, 0>>, <<1, 0>>, <<1, 2>>}

Init ==
    /\ NoSearch
    /\ NoDistance
    /\ NoSchedule
    /\ NoPost
    /\ NoDecision
    /\ \E g \in CombatGrids, ranged \in BOOLEAN : CombatStart(g, ranged)

Next ==
    \/ \E goal \in ClickGoals : PlanPlayerPath(goal)
    \/ \E goal \in ClickGoals : HandleCombatModeClick(goal)
    \/ \E key \in {"c", "e"} : HandleKeydown(key)
    \/ ExecuteRoundTick
    \/ UpdatePositions

Spec == Init /\ [][Next]_vars

(***************************************************************************)
(* Path validation: the threads of InputHandler and server/app.py          *)
(***************************************************************************)
\* requests.post returns in a thread (or raises): the thread now holds its
\* response.
ServerRespond ==
    /\ Running
    /\ \E t \in threads :
          /\ t.stage = "sent"
          /\ \E r \in Responses(t.data) :
                threads' = (threads \ {t}) \cup {[t EXCEPT !.stage = "answered", !.response = r]}
    /\ UNCHANGED <<tiles, game_mode, mv_limit, player_pos, player_hp, is_moving, queued_path,
                   current_path_index, commanded_path, enemies, enemy_planned_paths,
                   last_enemy_plan_time, ranged_attack_enabled, raised, char_screen_pos,
                   path_validated, win_message, ticks, clicks, keys, searchVars, decideVars, turnVars, hexVars, schedVars, clientVars>>

\* InputHandler._validate_path_async from the response on (lines 126-147).
ValidatePathAsync ==
    /\ Running
    /\ \E t \in threads :
          /\ t.kind = "exploration" /\ t.stage = "answered"
          /\ threads' = (threads \ {t}) \cup {[t EXCEPT !.stage = "ended"]}
          /\ IF t.response.raised = "RequestException"
             THEN /\ path_validated' = TRUE
                  /\ UNCHANGED <<is_moving, queued_path, char_screen_pos>>
             ELSE IF t.response.status # 200
             THEN /\ path_validated' = TRUE
                  /\ UNCHANGED <<is_moving, queued_path, char_screen_pos>>
             ELSE IF t.response.approved_path # <<>>
             THEN /\ path_validated' = TRUE
                  /\ UNCHANGED <<is_moving, queued_path, char_screen_pos>>
             ELSE /\ is_moving' = FALSE
                  /\ queued_path' = <<>>
                  /\ char_screen_pos' \in CharPoints
                  /\ UNCHANGED path_validated
    /\ UNCHANGED <<tiles, game_mode, mv_limit, player_pos, player_hp, current_path_index,
                   commanded_path, enemies, enemy_planned_paths, last_enemy_plan_time,
                   ranged_attack_enabled, raised, win_message, ticks, clicks, keys,
                   searchVars, decideVars, turnVars, hexVars, schedVars, clientVars>>

\* A transport error clears the plan like a rejection.
ValidatedCombatPlan_ErrorRejects(response, plan) ==
    IF response.raised = "RequestException" THEN None
    ELSE IF response.status # 200 THEN None
    ELSE IF response.approved_path # <<>>
    THEN IF plan # None /\ response.approved_path # plan
         THEN response.approved_path ELSE plan
    ELSE None

\* Lines 154-183 of _validate_combat_path_async: commanded_path after the
\* thread has handled its response, plan being commanded_path before.
ValidatedCombatPlan(response, plan) ==
    IF response.raised = "RequestException" THEN plan
    ELSE IF response.status # 200 THEN None
    ELSE IF response.approved_path # <<>>
    THEN IF plan # None /\ response.approved_path # plan
         THEN response.approved_path ELSE plan
    ELSE None

\* InputHandler._validate_combat_path_async from the response on (lines
\* 154-183).
ValidateCombatPathAsync ==
    /\ Running
    /\ \E t \in threads :
          /\ t.kind = "combat" /\ t.stage = "answered"
          /\ threads' = (threads \ {t}) \cup {[t EXCEPT !.stage = "ended"]}
          /\ commanded_path' = ValidatedCombatPlan(t.response, commanded_path)
    /\ UNCHANGED <<tiles, game_mode, mv_limit, player_pos, player_hp, is_moving, queued_path,
                   current_path_index, enemies, enemy_planned_paths, last_enemy_plan_time,
                   ranged_attack_enabled, raised, char_screen_pos, path_validated,
                   win_message, ticks, clicks, keys, searchVars, decideVars, turnVars, hexVars, schedVars, clientVars>>

\* The game as GameController wires it, on open ground, with the validation
\* threads.
InitNet ==
    /\ NoSearch
    /\ NoDistance
    /\ NoSchedule
    /\ NoPost
    /\ NoDecision
    /\ CombatStart([c \in CombatCells |-> Tile("plain")], FALSE)

\* Clicked hexes: the player's own at the start and a neighbor of it.
NetGoals == {<<0, 0>>, <<1, 0>>}

NextNet ==
    \/ \E goal \in NetGoals : HandleExplorationModeClick(goal)
    \/ \E goal \in NetGoals : HandleCombatModeClick(goal)
    \/ \E key \in {"c", "e"} : HandleKeydown(key)
    \/ ExecuteRoundTick
    \/ UpdatePositions
    \/ ServerRespond
    \/ ValidatePathAsync
    \/ ValidateCombatPathAsync

SpecNet == InitNet /\ [][NextNet]_vars

(***************************************************************************)
(* Reference notions the claims are stated with                            *)
(***************************************************************************)
IsNeighbor(a, b) == \E i \in 1..6 : get_neighbors(a[1], a[2])[i] = b

\* Sum of the costs of the cells a path enters (every entry but the first).
PathCost(path, grid) ==
    LET RECURSIVE Sum(_)
        Sum(i) == IF i > Len(path) THEN 0 ELSE AddCost(grid[path[i]].cost, Sum(i + 1))
    IN Sum(2)

RECURSIVE CheapestFrom(_, _, _)
\* Least cost from the source to every cell over walks of at most n more steps
\* that enter only present, unblocked cells (Bellman-Ford rounds).
CheapestFrom(d, grid, n) ==
    IF n = 0 THEN d
    ELSE LET nd == [c \in DOMAIN grid |->
                      IF grid[c].blocked THEN d[c]
                      ELSE Min({d[c]} \cup {AddCost(d[p], grid[c].cost) :
                                              p \in {x \in DOMAIN grid : IsNeighbor(x, c)}})]
         IN IF nd = d THEN d ELSE CheapestFrom(nd, grid, n - 1)

\* Least total terrain cost of a walk from start to goal; INF when none is finite.
MinCost(start, goal, grid) ==
    CheapestFrom([c \in DOMAIN grid |-> IF c = start THEN 0 ELSE INF],
                 grid, Cardinality(DOMAIN grid))[goal]

RECURSIVE ReachSet(_, _)
\* The cells reached from the cells of S by steps between hex neighbors that
\* enter only cells of the set free.
ReachSet(S, free) ==
    LET N == S \cup {c \in free : \E p \in S : IsNeighbor(p, c)}
    IN IF N = S THEN S ELSE ReachSet(N, free)

\* goal can be reached from start by steps between neighboring, present,
\* unblocked cells.
ReachableUnblocked(start, goal, grid) ==
    goal \in ReachSet({start}, {c \in DOMAIN grid : ~grid[c].blocked})

\* ... by steps that enter only unblocked cells of finite cost.
ReachablePassable(start, goal, grid) ==
    goal \in ReachSet({start}, {c \in DOMAIN grid : ~grid[c].blocked /\ grid[c].cost < INF})

SearchDone == s_pc = "done"

\* The loop variant of the search: the sum of the g scores (INF where a cell
\* has none) weighs more than the size of the frontier.
SearchMeasure(st) ==
    LET cells == DOMAIN st.g
        RECURSIVE SumG(_)
        SumG(S) == IF S = {} THEN 0
                   ELSE LET c == CHOOSE x \in S : TRUE IN st.g[c] + SumG(S \ {c})
    IN SumG(cells) * (Cardinality(cells) + 1) + Cardinality(st.open)

Searched == SearchDone /\ EarlyReturn(s_start, s_goal, s_grid) = "search"

(***************************************************************************)
(* Claims about a_star                                                     *)
(***************************************************************************)
\* C1: every non-empty path a_star returns starts with start, steps only
\* between hex neighbors, and has no entry other than start that is absent
\* from the grid or marked blocked.
C1_PathWellFormed ==
    (SearchDone /\ s_result # <<>>) =>
        /\ s_result[1] = s_start
        /\ \A i \in 1..(Len(s_result) - 1) : IsNeighbor(s_result[i], s_result[i + 1])
        /\ \A i \in 1..Len(s_result) :
              \/ s_result[i] = s_start
              \/ s_result[i] \in DOMAIN s_grid /\ ~s_grid[s_result[i]].blocked

\* A returned path of three or more entries on a grid that has a blocked cell.
C1_Witness ==
    /\ SearchDone /\ Len(s_result) >= 3
    /\ \E c \in DOMAIN s_grid : s_grid[c].blocked /\ IsNeighbor(s_start, c)

\* C2: with a finite budget b the result is the budget-free result cut to its
\* first b+1 entries: at most b steps, unmodified when it has at most b steps.
C2_BudgetIsTruncation ==
    (SearchDone /\ s_budget # NoBudget) =>
        LET full == a_star(s_start, s_goal, s_grid, NoBudget) IN
        /\ s_result = SubSeq(full, 1, Min({Len(full), s_budget + 1}))
        /\ Len(s_result) <= s_budget + 1
        /\ (Len(full) <= s_budget + 1 => s_result = full /\ (full # <<>> => full[Len(full)] = s_goal))

\* A search whose path was cut: it has exactly budget+1 entries and stops short of goal.
C2_Witness ==
    /\ Searched /\ s_budget # NoBudget
    /\ Len(s_result) = s_budget + 1
    /\ s_result[Len(s_result)] # s_goal

\* C3 as stated: the empty list whenever start or goal is not a cell of the
\* grid, or the goal cell is marked blocked.
C3_EmptyOnAbsentOrBlockedGoal ==
    (SearchDone /\ (\/ s_start \notin DOMAIN s_grid
                    \/ s_goal \notin DOMAIN s_grid
                    \/ s_grid[s_goal].blocked)) => s_result = <<>>

\* C3 amended: the empty list whenever start or goal is not a cell of the
\* grid, or the goal cell is marked blocked and is not the start cell.
C3_EmptyOnAbsentOrOtherBlockedGoal ==
    (SearchDone /\ (\/ s_start \notin DOMAIN s_grid
                    \/ s_goal \notin DOMAIN s_grid
                    \/ s_grid[s_goal].blocked /\ s_goal # s_start)) => s_result = <<>>

\* A search (start and goal in the grid, distinct) toward a blocked goal that
\* has a passable neighbor of start to expand, ended empty.
C3_Witness ==
    /\ Searched /\ s_grid[s_goal].blocked /\ s_result = <<>>
    /\ \E c \in DOMAIN s_grid : IsNeighbor(s_start, c) /\ ~s_grid[c].blocked

\* C4: a_star(s, s, grid, budget) is exactly [s] for every cell s of the grid
\* and every budget >= 0.
C4_SameStartGoal ==
    (SearchDone /\ s_start = s_goal /\ s_start \in DOMAIN s_grid) => s_result = <<s_start>>

\* The call with start = goal, budget 0, returned.
C4_Witness ==
    SearchDone /\ s_start = s_goal /\ s_start \in DOMAIN s_grid /\ s_budget = 0

\* C5: when the goal is reached and the path is not cut by the budget, the
\* returned path has the least total terrain cost among all paths between
\* neighboring, present, unblocked cells, on grids of plain and forest tiles.
C5_ReturnedPathIsCheapest ==
    (/\ Searched /\ s_result # <<>>
     /\ s_result[Len(s_result)] = s_goal
     /\ \A c \in DOMAIN s_grid : s_grid[c] \in {Tile("plain"), Tile("forest")})
        => PathCost(s_result, s_grid) = MinCost(s_start, s_goal, s_grid)

ActorsMotion ==
    <<player_pos, queued_path, is_moving,
      [i \in 1..Len(enemies) |->
          <<enemies[i].pos, enemies[i].queued_path, enemies[i].is_moving>>]>>

\* Some actor that was not moving is moving after the step.
MovementStarts ==
    \/ ~is_moving /\ is_moving'
    \/ \E i \in 1..Len(enemies) : ~enemies[i].is_moving /\ enemies'[i].is_moving

\* The player or a living enemy has movement in progress.
AnyMoving ==
    \/ is_moving
    \/ \E i \in 1..Len(enemies) : enemies[i].hp > 0 /\ enemies[i].is_moving

\* A step of plan_player_path or of a combat click.
PlanningStep == clicks' # clicks

\* A step of execute_round_tick.
TickStep == ticks' # ticks

\* C7: in combat mode a planning call changes no actor's position, queued
\* path or movement flag, and an actor starts moving only in a round tick.
C7_PlanningMovesNobody ==
    [][game_mode = "combat" =>
          /\ PlanningStep => ActorsMotion' = ActorsMotion
          /\ MovementStarts => TickStep]_vars

\* Some hit points changed: an attack was resolved in the step.
AttackResolved ==
    \/ player_hp' # player_hp
    \/ \E i \in 1..Len(enemies) : enemies'[i].hp # enemies[i].hp

\* C8: a round tick resolves an attack only when no actor has a committed
\* path still in progress.
C8_AttacksAfterMovement ==
    [][(TickStep /\ AttackResolved) =>
          /\ ~is_moving'
          /\ \A i \in 1..Len(enemies) : enemies[i].hp > 0 => ~enemies'[i].is_moving]_vars

\* C9: in combat mode, while any actor has movement in progress, no new plan
\* is stored (a stored plan may only be cleared) and no actor's queued path is
\* replaced by another path.
C9_NoPlanWhileMoving ==
    [][(game_mode = "combat" /\ AnyMoving) =>
          /\ commanded_path' \in {commanded_path, None}
          /\ enemy_planned_paths' \in {enemy_planned_paths, <<>>}
          /\ queued_path' \in {queued_path, <<>>}
          /\ \A i \in 1..Len(enemies) :
                enemies'[i].queued_path \in {enemies[i].queued_path, <<>>}]_vars

\* C10: a combat-mode planning call leaves every cell's blocked flag as it
\* was before the call.
C10_BlockedFlagsRestored ==
    [][(game_mode = "combat" /\ PlanningStep) =>
          \A c \in DOMAIN tiles : tiles'[c].blocked = tiles[c].blocked]_vars

(***************************************************************************)
(* GameController.update: one frame                                        *)
(***************************************************************************)
RECURSIVE EnemyAttacksAndMovementFrom(_, _, _, _, _, _, _)
\* GameController._handle_enemy_attacks_and_movement from the i-th enemy on:
\* the set of outcomes [enemies, player_hp, win_message].  A living enemy with
\* a path in progress gets a second update_movement in the frame; when that
\* call completes the path and the player is not defeated, the enemy attacks
\* from distance 1 (or up to 3 when ranged attacks are enabled).
EnemyAttacksAndMovementFrom(i, ens, php, msg, ppos, ranged, arrive) ==
    IF i > Len(ens)
    THEN {[enemies |-> ens, player_hp |-> php, win_message |-> msg]}
    ELSE IF ~(/\ ens[i].hp > 0 /\ ens[i].is_moving /\ ens[i].queued_path # <<>>
              /\ ens[i].current_path_index < Len(ens[i].queued_path))
    THEN EnemyAttacksAndMovementFrom(i + 1, ens, php, msg, ppos, ranged, arrive)
    ELSE LET moved == update_movement(ens[i], arrive[i])
             enemy_path_complete == ~moved.is_moving
             dist == HexDist(moved.pos, ppos)
             damages == IF ~enemy_path_complete \/ php <= 0 THEN {0}
                        ELSE IF dist = 1 THEN 1..DiceSides
                        ELSE IF dist <= 3 /\ ranged
                        THEN {Max({0, roll - (dist - 1)}) : roll \in 1..DiceSides}
                        ELSE {0}
         IN UNION {EnemyAttacksAndMovementFrom(
                       i + 1, [ens EXCEPT ![i] = moved],
                       IF damage # 0 THEN update_hp(php, damage) ELSE php,
                       IF damage # 0 THEN update_hp_message(php, damage, msg) ELSE msg,
                       ppos, ranged, arrive) :
                   damage \in damages}

\* GameState.check_win_condition.
check_win_condition(ppos, msg) ==
    IF ppos = <<GoalQ, GoalR>> /\ msg = "" THEN "Victory" ELSE msg

\* GameController.update, one frame without its timed parts (the round tick is
\* ExecuteRoundTick): CombatSystem.update_positions, then
\* _handle_enemy_attacks_and_movement, then check_win_condition.
UpdateFrame ==
    /\ Running
    /\ \E arrives \in {a \in BOOLEAN : a => is_moving},
          first \in Arrivals(enemies) :
          LET step == /\ is_moving /\ queued_path # <<>>
                      /\ current_path_index < Len(queued_path) /\ arrives
              index == IF step THEN current_path_index + 1 ELSE current_path_index
              done == queued_path # <<>> /\ index >= Len(queued_path)
              ppos == IF step THEN queued_path[current_path_index + 1] ELSE player_pos
              positioned == [i \in 1..Len(enemies) |->
                                IF enemies[i].hp > 0 THEN update_movement(enemies[i], first[i])
                                ELSE enemies[i]]
          IN /\ player_pos' = ppos
             /\ char_screen_pos' = IF step THEN CharTarget ELSE char_screen_pos
             /\ queued_path' = IF done THEN <<>> ELSE queued_path
             /\ current_path_index' = IF done THEN 0 ELSE index
             /\ is_moving' = IF done THEN FALSE ELSE is_moving
             /\ \E second \in Arrivals(positioned) :
                \E out \in EnemyAttacksAndMovementFrom(1, positioned, player_hp, win_message,
                                                       ppos, ranged_attack_enabled, second) :
                   /\ enemies' = out.enemies
                   /\ player_hp' = out.player_hp
                   /\ win_message' = check_win_condition(ppos, out.win_message)
    /\ UNCHANGED <<tiles, game_mode, mv_limit, commanded_path, enemy_planned_paths,
                   last_enemy_plan_time, ranged_attack_enabled, raised, path_validated,
                   threads, ticks, clicks, keys, searchVars, decideVars, turnVars, hexVars, schedVars, clientVars>>

\* GameController.__init__ on a grid of plain tiles.
InitGame ==
    /\ NoSearch
    /\ NoDistance
    /\ NoSchedule
    /\ NoPost
    /\ NoDecision
    /\ \E ranged \in BOOLEAN : CombatStart([c \in CombatCells |-> Tile("plain")], ranged)

\* The game loop: clicks and the 'c' key, CombatSystem.plan_player_path, round
\* ticks and frames.
NextGame ==
    \/ \E goal \in NetGoals : HandleCombatModeClick(goal)
    \/ \E goal \in NetGoals : PlanPlayerPath(goal)
    \/ HandleKeydown("c")
    \/ ExecuteRoundTick
    \/ UpdateFrame

SpecGame == InitGame /\ [][NextGame]_vars

(***************************************************************************)
(* CombatSystem in the middle of a fight                                   *)
(***************************************************************************)
\* A grid _initialize_grid can draw: walls on the three free neighbors of the
\* enemy at (0, 1), which stands next to the player and has nowhere to go.
BoxedGrid ==
    [c \in CombatCells |->
        IF c \in {<<1, 0>>, <<1, 1>>, <<0, 2>>} THEN Tile("wall") ELSE Tile("plain")]

PlainGrid == [c \in CombatCells |-> Tile("plain")]

\* An enemy that has taken turns (take_turn assigned its attack flag) and may
\* have been hit.
FightingEnemy(pos, hp) ==
    [Enemy(pos) EXCEPT !.hp = hp, !.attack_this_turn = "False"]

\* Combat mode some rounds into a fight: the first enemy still next to the
\* player, the second at its start hex or, on open ground, arrived next to
\* the player; each at full HP or already hit.
InitResolve ==
    /\ NoSearch
    /\ NoDistance
    /\ NoSchedule
    /\ NoPost
    /\ NoDecision
    /\ \E g \in {PlainGrid, BoxedGrid}, ranged \in BOOLEAN,
          second \in {EnemyStarts[2], <<1, 0>>}, hp \in [1..2 -> {EnemyHp, MidFightHp}] :
          /\ g = BoxedGrid => second = EnemyStarts[2]
          /\ tiles = g
          /\ game_mode = "combat"
          /\ mv_limit = MvLimit
          /\ player_pos = <<0, 0>>
          /\ player_hp = PlayerHp
          /\ is_moving = FALSE
          /\ queued_path = <<>>
          /\ current_path_index = 0
          /\ commanded_path = None
          /\ enemies = <<FightingEnemy(EnemyStarts[1], hp[1]), FightingEnemy(second, hp[2])>>
          /\ enemy_planned_paths = <<>>
          /\ last_enemy_plan_time = "never"
          /\ ranged_attack_enabled = ranged
          /\ raised = "none"
          /\ char_screen_pos = <<0, 0>>
          /\ path_validated = FALSE
          /\ win_message = ""
          /\ threads = {}
          /\ ticks = 0
          /\ clicks = 0
          /\ keys = 0
          /\ combat_round = 0
          /\ current_turn = "player"

\* CombatSystem driven through its own entry points: plan_player_path,
\* execute_round_tick and update_positions.
NextResolve ==
    \/ \E goal \in NetGoals : PlanPlayerPath(goal)
    \/ ExecuteRoundTick
    \/ UpdatePositions

SpecResolve == InitResolve /\ [][NextResolve]_vars

\* The game loop calls update_positions in every frame, and every frame
\* brings a moving sprite move_speed * dt pixels closer to its target hex: a
\* frame in which an actor arrives keeps coming while one is moving.
SpecResolveLive == SpecResolve /\ WF_vars(UpdatePositions)

(***************************************************************************)
(* Enemy decisions: the three procedures that classify an enemy            *)
(***************************************************************************)
\* A living enemy at every HP, at every distance up to MaxDist from the
\* player, and the player at every HP from 0 (defeated) up.
InitDecide ==
    /\ NoSearch
    /\ NoDistance
    /\ NoSchedule
    /\ NoPost
    /\ CombatStart([c \in CombatCells |-> Tile("plain")], FALSE)
    /\ d_player_pos = <<0, 0>>
    /\ \E q \in 1..MaxDist, hp \in 1..EnemyHp :
          d_enemy = [Enemy(<<q, 0>>) EXCEPT !.hp = hp]
    /\ d_player_hp \in 0..PlayerHp
    /\ d_proc = "none"
    /\ d_behavior = "none"
    /\ d_grid = <<>> /\ d_enemies = <<>> /\ d_goal = None

\* The decision of Enemy.take_turn, which is not told the player's HP.
DecideTakeTurn ==
    /\ d_proc = "none"
    /\ d_proc' = "take_turn"
    /\ d_behavior' = TakeTurnBehavior(d_enemy, d_player_pos)
    /\ UNCHANGED <<d_enemy, d_player_pos, d_player_hp, d_grid, d_enemies, d_goal,
                   searchVars, combatVars, turnVars, hexVars, schedVars, clientVars>>

\* AISystem._decide_behavior(enem, self.state.player_hp, player_pos).
DecideBehavior ==
    /\ d_proc = "none"
    /\ d_proc' = "_decide_behavior"
    /\ d_behavior' = decide_behavior(d_enemy, d_player_hp, d_player_pos).behavior
    /\ UNCHANGED <<d_enemy, d_player_pos, d_player_hp, d_grid, d_enemies, d_goal,
                   searchVars, combatVars, turnVars, hexVars, schedVars, clientVars>>

\* The decision of CombatSystem._plan_enemy_actions for one enemy.
DecidePlanEnemy ==
    /\ d_proc = "none"
    /\ d_proc' = "_plan_enemy_actions"
    /\ d_behavior' = PlanEnemyBehavior(d_enemy, d_player_pos)
    /\ UNCHANGED <<d_enemy, d_player_pos, d_player_hp, d_grid, d_enemies, d_goal,
                   searchVars, combatVars, turnVars, hexVars, schedVars, clientVars>>

NextDecide == DecideTakeTurn \/ DecideBehavior \/ DecidePlanEnemy

SpecDecide == InitDecide /\ [][NextDecide]_vars

(***************************************************************************)
(* Enemy goals: the hex an enemy decides to walk to                        *)
(***************************************************************************)
\* The enemy list of a goal run: the deciding enemy and a second one that is
\* alive on another hex or dead (moved off the grid when it was killed).
GoalEnemies(grid_tiles, ppos) ==
    {<<[Enemy(first) EXCEPT !.hp = hp], IF second = <<-999, -999>>
                                        THEN [Enemy(second) EXCEPT !.hp = 0]
                                        ELSE Enemy(second)>> :
        first \in DOMAIN grid_tiles \ {ppos},
        second \in (DOMAIN grid_tiles \ {ppos}) \cup {<<-999, -999>>},
        hp \in {EnemyHp, RetreatThreshold}}

\* Every grid, every hex of the player and every placement of two enemies
\* on hexes other than the player's, the two on different hexes.
InitGoal ==
    /\ NoSearch
    /\ NoDistance
    /\ NoSchedule
    /\ NoPost
    /\ CombatStart([c \in CombatCells |-> Tile("plain")], FALSE)
    /\ d_grid \in CombatGrids
    /\ d_player_pos \in CombatCells
    /\ d_player_hp = PlayerHp
    /\ d_enemies \in {ens \in GoalEnemies(d_grid, d_player_pos) : ens[1].pos # ens[2].pos}
    /\ d_enemy = d_enemies[1]
    /\ d_behavior \in {"chase", "retreat", "patrol"}
    /\ d_proc = "none"
    /\ d_goal = None

\* enem.calculate_ai_path(player_pos, grid_tiles, enemies, behavior), as
\* take_turn and _plan_enemy_actions call it: the goal it chooses.
CalculateAiPathGoal ==
    /\ d_proc = "none"
    /\ d_proc' = "calculate_ai_path"
    /\ d_goal' \in GoalHexes(d_enemy, d_player_pos, d_grid,
                             DefaultOccupied(d_enemies, d_player_pos), d_behavior)
    /\ UNCHANGED <<d_enemy, d_player_pos, d_player_hp, d_behavior, d_grid, d_enemies,
                   searchVars, combatVars, turnVars, hexVars, schedVars, clientVars>>

\* AISystem.update_ai for the first enemy: the behavior it decides on and the
\* goal of the path it plans.
UpdateAiGoal ==
    /\ d_proc = "none"
    /\ d_proc' = "update_ai"
    /\ d_behavior' = decide_behavior(d_enemy, d_player_hp, d_player_pos).behavior
    /\ d_goal' \in update_ai_goals(d_enemies, 1, d_player_hp, d_player_pos, d_grid)
    /\ UNCHANGED <<d_enemy, d_player_pos, d_player_hp, d_grid, d_enemies,
                   searchVars, combatVars, turnVars, hexVars, schedVars, clientVars>>

\* EnemyAI.calculate_move of a retreating enemy: the goal it chooses.
EnemyAIRetreatGoal ==
    /\ d_proc = "none" /\ d_behavior = "retreat"
    /\ d_proc' = "EnemyAI.calculate_move"
    /\ d_goal' = EnemyAI_find_retreat_position(d_enemy.pos, d_enemy.mv_limit,
                                               d_player_pos, d_grid)
    /\ UNCHANGED <<d_enemy, d_player_pos, d_player_hp, d_behavior, d_grid, d_enemies,
                   searchVars, combatVars, turnVars, hexVars, schedVars, clientVars>>

NextGoal == CalculateAiPathGoal \/ UpdateAiGoal \/ EnemyAIRetreatGoal

SpecGoal == InitGoal /\ [][NextGoal]_vars

(***************************************************************************)
(* plan_player_path called on a freshly built CombatSystem, as              *)
(* tests/test_combat.py does                                                *)
(***************************************************************************)
\* The goal of test_plan_player_path_invalid: a hex outside every grid.
InvalidGoal == <<99, 99>>

PlanGoals == ClickGoals \cup {InvalidGoal}

NextPlan == \E goal \in PlanGoals : PlanPlayerPath(goal)

SpecPlan == Init /\ [][NextPlan]_vars

(***************************************************************************)
(* GameState.switch_mode called with any string                            *)
(***************************************************************************)
\* The two modes and strings that name none.
ModeStrings == {"combat", "exploration", "Combat", "turn_based", ""}

\* state.switch_mode(new_mode), called directly.
SwitchMode(new_mode) ==
    /\ Running
    /\ LET st == switch_mode([game_mode |-> game_mode, mv_limit |-> mv_limit,
                              combat_round |-> combat_round,
                              commanded_path |-> commanded_path, raised |-> raised],
                             new_mode)
       IN /\ game_mode' = st.game_mode
          /\ mv_limit' = st.mv_limit
          /\ combat_round' = st.combat_round
          /\ commanded_path' = st.commanded_path
          /\ raised' = st.raised
    /\ UNCHANGED <<tiles, player_pos, player_hp, is_moving, queued_path, current_path_index,
                   enemies, enemy_planned_paths, last_enemy_plan_time, ranged_attack_enabled,
                   char_screen_pos, path_validated, win_message, threads, ticks, clicks, keys,
                   current_turn, searchVars, decideVars, hexVars, schedVars, clientVars>>

NextMode ==
    \/ \E new_mode \in ModeStrings : SwitchMode(new_mode)
    \/ \E goal \in ClickGoals : PlanPlayerPath(goal)

SpecMode == Init /\ [][NextMode]_vars

(***************************************************************************)
(* client/turn_based_combat_system.py                                      *)
(*                                                                         *)
(* plan_player_path (with _block_occupied_hexes, _store_player_path and    *)
(* _plan_enemy_actions), _resolve_combat_attacks and update_positions are, *)
(* statement for statement, those of CombatSystem: PlanPlayerPath,         *)
(* resolve_combat_attacks and UpdatePositions.                             *)
(***************************************************************************)
\* TurnBasedCombatSystem.execute_turn.  An exception raised while the attacks
\* are resolved leaves the plans and the turn as they are.
ExecuteTurn ==
    /\ Running
    /\ IF current_turn = "player" /\ commanded_path # None /\ ~is_moving
       THEN /\ queued_path' = commanded_path /\ current_path_index' = 0
            /\ is_moving' = TRUE /\ commanded_path' = None
            /\ UNCHANGED <<enemies, player_hp, win_message, raised, enemy_planned_paths,
                           current_turn>>
       ELSE IF current_turn = "enemy"
       THEN /\ \E out \in resolve_combat_attacks(
                             CommitEnemyPaths(1, enemy_planned_paths, enemies), player_hp,
                             win_message, is_moving, player_pos, ranged_attack_enabled) :
                  /\ enemies' = out.enemies
                  /\ player_hp' = out.player_hp
                  /\ win_message' = out.win_message
                  /\ raised' = out.raised
                  /\ enemy_planned_paths' =
                        IF out.raised = "none" THEN <<>> ELSE enemy_planned_paths
                  /\ current_turn' =
                        IF out.raised = "none" THEN switch_turn(current_turn)
                        ELSE current_turn
            /\ UNCHANGED <<queued_path, current_path_index, is_moving, commanded_path>>
       ELSE UNCHANGED <<queued_path, current_path_index, is_moving, commanded_path, enemies,
                        player_hp, win_message, raised, enemy_planned_paths, current_turn>>
    /\ UNCHANGED <<tiles, game_mode, mv_limit, player_pos, last_enemy_plan_time,
                   ranged_attack_enabled, char_screen_pos, path_validated, threads, ticks,
                   clicks, keys, combat_round, searchVars, decideVars, hexVars, schedVars, clientVars>>

\* The turn-based loop: the player plans, turns are executed, frames move
\* the actors.
NextTurn ==
    \/ \E goal \in ClickGoals : PlanPlayerPath(goal)
    \/ ExecuteTurn
    \/ UpdatePositions

SpecTurn == Init /\ [][NextTurn]_vars

\* The game loop keeps calling execute_turn and update_positions.
SpecTurnLive ==
    /\ SpecTurn
    /\ WF_vars(ExecuteTurn)
    /\ WF_vars(UpdatePositions)

(***************************************************************************)
(* utils/hex_utils.py: hex_distance between drawn coordinates              *)
(***************************************************************************)
HexCoords == (-MaxCoord..MaxCoord) \X (-MaxCoord..MaxCoord)

InitHex ==
    /\ NoSearch
    /\ NoDecision
    /\ CombatStart([c \in CombatCells |-> Tile("plain")], FALSE)
    /\ h_a \in HexCoords /\ h_b \in HexCoords /\ h_c \in HexCoords
    /\ h_dist = None
    /\ NoSchedule
    /\ NoPost

\* hex_distance called on every ordered pair of the three coordinates, and
\* get_neighbors on the first.
MeasureDistances ==
    /\ h_dist = None
    /\ h_dist' = [aa |-> HexDist(h_a, h_a), ab |-> HexDist(h_a, h_b),
                  ba |-> HexDist(h_b, h_a), bc |-> HexDist(h_b, h_c),
                  ac |-> HexDist(h_a, h_c), nb |-> get_neighbors(h_a[1], h_a[2])]
    /\ UNCHANGED <<h_a, h_b, h_c, searchVars, combatVars, decideVars, turnVars,
                   schedVars, clientVars>>

NextHex == MeasureDistances

SpecHex == InitHex /\ [][NextHex]_vars

(***************************************************************************)
(* client/combat/scheduler.py: Scheduler                                   *)
(***************************************************************************)
\* Bounds: schedule calls made, and the time update may advance to.
MaxEvents == 3
MaxTime == 3

\* The delay arguments of schedule and the delta_seconds arguments of update.
Delays == -1..2
Deltas == 0..2

\* The callbacks handed to schedule; "boom" raises an Exception when called.
Callbacks == {"tick", "attack", "boom"}
Raises(callback) == callback = "boom"

\* Event.__init__; id stands for the identity of the object (the number of the
\* schedule call that made it), args and kwargs are empty.
Event(trigger_time, callback, id) ==
    [trigger_time |-> trigger_time, callback |-> callback, id |-> id]

\* Event.__lt__
Event_lt(self, other) == self.trigger_time < other.trigger_time

\* list.sort() with Event.__lt__: stable, an event goes behind those it is
\* not less than.
RECURSIVE InsertEvent(_, _)
InsertEvent(sorted, event) ==
    IF sorted = <<>> THEN <<event>>
    ELSE IF Event_lt(event, Head(sorted)) THEN <<event>> \o sorted
    ELSE <<Head(sorted)>> \o InsertEvent(Tail(sorted), event)

RECURSIVE SortEvents(_)
SortEvents(evs) ==
    IF evs = <<>> THEN <<>>
    ELSE InsertEvent(SortEvents(SubSeq(evs, 1, Len(evs) - 1)), evs[Len(evs)])

\* Scheduler.schedule: the event list after the call.
Scheduler_schedule(evs, now, delay, callback, id) ==
    SortEvents(Append(evs, Event(now + delay, callback, id)))

\* The exception leaves update: the events behind the raising one stay queued.
RECURSIVE Scheduler_update_StopsOnRaise(_, _, _)
Scheduler_update_StopsOnRaise(evs, now, called) ==
    IF evs # <<>> /\ Head(evs).trigger_time <= now
    THEN LET event == Head(evs)
         IN IF Raises(event.callback)
            THEN [events |-> Tail(evs), ran |-> Append(called, event)]
            ELSE Scheduler_update_StopsOnRaise(Tail(evs), now, Append(called, event))
    ELSE [events |-> evs, ran |-> called]

\* The while loop of Scheduler.update at the advanced time now: pop(0), call
\* the callback, and go on whether it returned or raised an Exception (which
\* is caught and printed).
RECURSIVE Scheduler_update(_, _, _)
Scheduler_update(evs, now, called) ==
    IF evs # <<>> /\ Head(evs).trigger_time <= now
    THEN LET event == Head(evs)
         IN Scheduler_update(Tail(evs), now, Append(called, event))
    ELSE [events |-> evs, ran |-> called]

\* Scheduler.cancel with empty args: the events of that callback are dropped.
Scheduler_cancel(evs, callback) ==
    SelectSeq(evs, LAMBDA e : e.callback # callback)

InitSched ==
    /\ NoSearch
    /\ NoDecision
    /\ CombatStart([c \in CombatCells |-> Tile("plain")], FALSE)
    /\ NoDistance
    /\ NoSchedule
    /\ NoPost

Schedule(delay, callback) ==
    /\ scheduled < MaxEvents
    /\ scheduled' = scheduled + 1
    /\ events' = Scheduler_schedule(events, current_time, delay, callback, scheduled + 1)
    /\ UNCHANGED <<current_time, ran, searchVars, combatVars, decideVars, turnVars,
                   hexVars, clientVars>>

Update(delta_seconds) ==
    /\ current_time + delta_seconds <= MaxTime
    /\ current_time' = current_time + delta_seconds
    /\ LET out == Scheduler_update(events, current_time + delta_seconds, ran)
       IN /\ events' = out.events
          /\ ran' = out.ran
    /\ UNCHANGED <<scheduled, searchVars, combatVars, decideVars, turnVars,
                   hexVars, clientVars>>

Cancel(callback) ==
    /\ events' = Scheduler_cancel(events, callback)
    /\ UNCHANGED <<current_time, ran, scheduled, searchVars, combatVars, decideVars,
                   turnVars, hexVars, clientVars>>

NextSched ==
    \/ \E delay \in Delays, callback \in Callbacks : Schedule(delay, callback)
    \/ \E delta_seconds \in Deltas : Update(delta_seconds)
    \/ \E callback \in Callbacks : Cancel(callback)

SpecSched == InitSched /\ [][NextSched]_vars

(***************************************************************************)
(* client/network/client.py: NetworkClient.post_with_retry                 *)
(***************************************************************************)
\* Bound on the max_retries argument of NetworkClient.
MaxRetries == 3

\* The constructor arguments tried.
RetryDelays == {1, 2}
BackoffFactors == {1, 2, 3}

\* What requests.post does on one request: a 200 response with one of two
\* JSON bodies, an error response, or a RequestException.
PostResponses ==
    {[raised |-> "none", status |-> 200, json |-> [id |-> 1]],
     [raised |-> "none", status |-> 200, json |-> [id |-> 2]],
     [raised |-> "none", status |-> ErrorStatus, json |-> None],
     [raised |-> "RequestException", status |-> 0, json |-> None]}

\* time.sleep(delay) also after the last attempt.
RECURSIVE post_with_retry_SleepsAfterLast(_, _, _, _, _, _)
post_with_retry_SleepsAfterLast(attempt, delay, sleeps, retries, factor, responses) ==
    IF attempt >= retries
    THEN [returned |-> None, requests |-> attempt, sleeps |-> sleeps]
    ELSE LET response == responses[attempt + 1]
         IN IF response.raised = "none" /\ response.status = 200
            THEN [returned |-> response.json, requests |-> attempt + 1, sleeps |-> sleeps]
            ELSE post_with_retry_SleepsAfterLast(attempt + 1, delay * factor,
                                                 Append(sleeps, delay), retries, factor,
                                                 responses)

\* NetworkClient.post_with_retry from loop index attempt on: what it returns,
\* the number of requests made and the delays slept, in order.  responses[k]
\* is what the k-th request does.
RECURSIVE post_with_retry(_, _, _, _, _, _)
post_with_retry(attempt, delay, sleeps, retries, factor, responses) ==
    IF attempt >= retries
    THEN [returned |-> None, requests |-> attempt, sleeps |-> sleeps]
    ELSE LET response == responses[attempt + 1]
         IN IF response.raised = "none" /\ response.status = 200
            THEN [returned |-> response.json, requests |-> attempt + 1, sleeps |-> sleeps]
            ELSE IF attempt < retries - 1
            THEN post_with_retry(attempt + 1, delay * factor, Append(sleeps, delay),
                                 retries, factor, responses)
            ELSE post_with_retry(attempt + 1, delay, sleeps, retries, factor, responses)

InitClient ==
    /\ NoSearch
    /\ NoDecision
    /\ CombatStart([c \in CombatCells |-> Tile("plain")], FALSE)
    /\ NoDistance
    /\ NoSchedule
    /\ max_retries \in 0..MaxRetries
    /\ retry_delay \in RetryDelays
    /\ backoff_factor \in BackoffFactors
    /\ post_responses = <<>>
    /\ post_result = None

PostWithRetry(responses) ==
    /\ post_responses' = responses
    /\ post_result' = post_with_retry(0, retry_delay, <<>>, max_retries, backoff_factor,
                                      responses)
    /\ UNCHANGED <<max_retries, retry_delay, backoff_factor, searchVars, combatVars,
                   decideVars, turnVars, hexVars, schedVars>>

NextClient == \E responses \in [1..MaxRetries -> PostResponses] : PostWithRetry(responses)

SpecClient == InitClient /\ [][NextClient]_vars

(***************************************************************************)
(* Claims about path validation                                            *)
(***************************************************************************)
\* The locally computed path a validation thread was started for.
RequestPath(t) ==
    IF t.kind = "combat" THEN t.path
    ELSE a_star(t.data.start, t.data.goal, t.data.grid, LocalMvLimit)

\* The thread's plan is no longer the stored one: it was superseded, committed
\* or cleared.
StaleThread(t) ==
    IF t.kind = "combat" THEN t.path # commanded_path ELSE RequestPath(t) # queued_path

\* The thread t handles its response in this step and ends.
Handles(t) == t \in threads /\ t.stage = "answered" /\ t \notin threads'

\* C11: a response handled for a plan that is no longer the stored one changes
\* neither the stored plan nor the current movement.
C11_StaleResponseDiscarded ==
    [][\A t \in threads :
          (Handles(t) /\ StaleThread(t)) =>
              /\ commanded_path' = commanded_path
              /\ is_moving' = is_moving
              /\ queued_path' = queued_path]_vars

\* C12: when the request of a validation thread raised (timeout, transport
\* error), handling it leaves the plan and the movement as they are, and in
\* exploration marks the path validated.
C12_TransportErrorKeepsPath ==
    [][\A t \in threads :
          (Handles(t) /\ t.response.raised = "RequestException") =>
              /\ commanded_path' = commanded_path
              /\ is_moving' = is_moving
              /\ queued_path' = queued_path
              /\ current_path_index' = current_path_index
              /\ player_pos' = player_pos
              /\ t.kind = "exploration" => path_validated']_vars

\* An exploration thread and a combat thread have both ended on a transport
\* error; the path is marked validated and the combat plan is still stored.
C12_Witness ==
    /\ \E t \in threads :
          /\ t.kind = "exploration" /\ t.stage = "ended"
          /\ t.response.raised = "RequestException"
    /\ path_validated
    /\ \E t \in threads :
          /\ t.kind = "combat" /\ t.stage = "ended"
          /\ t.response.raised = "RequestException"
          /\ commanded_path = t.path

\* The response is an explicit rejection: status 200 with an empty
\* approved_path.
ExplicitReject(response) ==
    response.raised = "none" /\ response.status = 200 /\ response.approved_path = <<>>

\* C13: a validation thread clears the stored plan or stops the movement only
\* on an explicit rejection.
C13_CancelOnlyOnExplicitReject ==
    [][\A t \in threads :
          (/\ Handles(t)
           /\ \/ commanded_path # None /\ commanded_path' = None
              \/ is_moving /\ ~is_moving'
              \/ queued_path # <<>> /\ queued_path' = <<>>) =>
              ExplicitReject(t.response)]_vars

(***************************************************************************)
(* Claims about the outcome of the game and hit points                     *)
(***************************************************************************)
\* C14: once the player's HP is 0 or the game is won, no click and no
\* plan_player_path call stores a plan or starts the player's movement, and no
\* step changes HP or the recorded outcome.
C14_OutcomeIsTerminal ==
    [][(player_hp <= 0 \/ win_message # "") =>
          /\ clicks' # clicks => /\ commanded_path' = commanded_path
                                /\ (is_moving' => is_moving)
          /\ win_message' = win_message
          /\ player_hp' = player_hp]_vars

\* C15: the player's HP and every enemy's HP are at least 0 in every state.
C15_HpNeverNegative ==
    /\ player_hp >= 0
    /\ \A i \in 1..Len(enemies) : enemies[i].hp >= 0

\* C16: when a tick resolves attacks with the player alive and not moving and
\* the nearest living enemy at distance 1, that enemy's HP becomes
\* max(0, HP - roll) for one d6 roll and no other enemy's HP changes; when no
\* living enemy is at distance 1, no enemy's HP changes.
C16_OneClampedRollOnAdjacentEnemy ==
    [][(ticks' # ticks /\ raised' = "none") =>
          LET closest == get_closest_enemy(player_pos, enemies)
              others == (1..Len(enemies)) \ {closest}
          IN /\ (/\ player_hp > 0 /\ ~is_moving /\ commanded_path = None
                 /\ closest # 0 /\ HexDist(player_pos, enemies[closest].pos) = 1) =>
                    /\ \E roll \in 1..DiceSides :
                          enemies'[closest].hp = Max({0, enemies[closest].hp - roll})
                    /\ \A i \in others : enemies'[i].hp = enemies[i].hp
             /\ (\A i \in 1..Len(enemies) :
                    enemies[i].hp > 0 => HexDist(player_pos, enemies[i].pos) # 1) =>
                    \A i \in 1..Len(enemies) : enemies'[i].hp = enemies[i].hp]_vars

RECURSIVE ClaimedPlayerHps(_, _, _, _, _, _)
\* The player's HP after the enemies from the i-th on have attacked as C17
\* states it: each enemy of alive whose attack flag is set lowers the HP by
\* its damage, not below 0.
ClaimedPlayerHps(i, ens, alive, php, ppos, ranged) ==
    IF i > Len(ens) THEN {php}
    ELSE IF i \notin alive \/ ens[i].attack_this_turn # "True"
    THEN ClaimedPlayerHps(i + 1, ens, alive, php, ppos, ranged)
    ELSE LET dist == HexDist(ens[i].pos, ppos)
             damages == IF dist = 1 THEN 1..DiceSides
                        ELSE IF dist \in {2, 3} /\ ranged
                        THEN {Max({0, roll - (dist - 1)}) : roll \in 1..DiceSides}
                        ELSE {0}
         IN UNION {ClaimedPlayerHps(i + 1, ens, alive, Max({0, php - damage}), ppos, ranged) :
                     damage \in damages}

\* C17: a tick leaves the player's HP at max(0, HP - damage) for the damage of
\* every living enemy whose attack flag was set: a d6 roll at distance 1,
\* max(0, roll - (distance - 1)) at distance 2 or 3 with ranged attacks
\* enabled, 0 otherwise; in particular the HP never goes up.
C17_EnemyAttackLowersPlayerHp ==
    [][(ticks' # ticks /\ raised' = "none") =>
          /\ player_hp' \in ClaimedPlayerHps(1, enemies,
                                {i \in 1..Len(enemies) : enemies'[i].hp > 0},
                                player_hp, player_pos, ranged_attack_enabled)
          /\ player_hp' <= player_hp]_vars

\* C18: an enemy whose HP is 0 or less is never returned by
\* get_closest_enemy, is never changed again (no attack hits it, it takes no
\* turn and does not move), stands on no hex of the grid, so that no planning
\* counts its hex as occupied, and the player's HP changes only in a step
\* that starts with a living enemy whose attack flag is set.
C18_DeadEnemyIsOut ==
    [][\A i \in 1..Len(enemies) :
          enemies[i].hp <= 0 =>
              /\ get_closest_enemy(player_pos, enemies) # i
              /\ enemies'[i] = enemies[i]
              /\ enemies[i].pos \notin DOMAIN tiles
              /\ ~LivingAt(enemies, enemies[i].pos)
              /\ player_hp' # player_hp =>
                    \E j \in 1..Len(enemies) :
                       enemies[j].hp > 0 /\ enemies[j].attack_this_turn = "True"]_vars

\* Both enemies are dead, each killed by a tick's auto-attack, and a plan was
\* stored afterwards.
C18_Witness ==
    /\ \A i \in 1..Len(enemies) : enemies[i].hp <= 0
    /\ ticks = 2
    /\ commanded_path # None

(***************************************************************************)
(* Claims about enemy decisions                                            *)
(***************************************************************************)
\* C19: each of the three decision procedures classifies an enemy whose HP is
\* at most 30% of its max HP as retreat when the player is alive, whatever the
\* distance, distance 1 included.
C19_LowHpRetreats ==
    (/\ d_proc # "none"
     /\ 10 * d_enemy.hp <= 3 * d_enemy.max_hp
     /\ d_player_hp > 0) => d_behavior = "retreat"

\* take_turn has decided for an enemy at 3 of 10 HP standing next to a living
\* player.
C19_Witness ==
    /\ d_proc = "take_turn"
    /\ d_enemy.hp = 3 /\ d_enemy.max_hp = 10
    /\ HexDist(d_enemy.pos, d_player_pos) = 1
    /\ d_player_hp > 0
    /\ d_behavior = "retreat"

\* C20: with the player's HP at 0 no decision procedure classifies an enemy as
\* chase, at any distance and any enemy HP.
C20_NoChaseOfDefeatedPlayer ==
    (d_proc # "none" /\ d_player_hp = 0) => d_behavior # "chase"

\* C21: each decision procedure classifies an enemy whose HP is above 30% of
\* its max HP, the player being alive, as chase when its distance to the
\* player is at most the procedure's chase distance and as patrol otherwise.
C21_HealthyEnemyChasesOrPatrols ==
    (/\ d_proc # "none"
     /\ 10 * d_enemy.hp > 3 * d_enemy.max_hp
     /\ d_player_hp > 0) =>
        d_behavior =
            IF HexDist(d_enemy.pos, d_player_pos) <=
                  (IF d_proc = "_decide_behavior" THEN AiChaseDistance ELSE ChaseDistance)
            THEN "chase" ELSE "patrol"

(***************************************************************************)
(* Claims about enemy goals                                                *)
(***************************************************************************)
\* The hexes of the grid that are unblocked and hold neither the player nor a
\* living enemy other than the deciding one.
FreeHexes ==
    {c \in DOMAIN d_grid :
        /\ ~d_grid[c].blocked /\ c # d_player_pos
        /\ c \notin OthersOccupied(d_enemies, 1)}

\* C22: a goal hex chosen for an enemy, by calculate_ai_path or by update_ai,
\* is unblocked and holds neither the player nor another living enemy.
C22_GoalIsFree ==
    (d_proc \in {"calculate_ai_path", "update_ai"} /\ d_goal # None) =>
        d_goal \in FreeHexes

\* The free hexes next to the player, the deciding enemy's own hex not
\* counted.
AdjacentFree ==
    {c \in FreeHexes : c # d_enemy.pos /\ HexDist(c, d_player_pos) = 1}

\* C23: in chase, calculate_ai_path selects a free hex next to the player
\* that is nearest to the enemy among the free hexes next to the player, and
\* selects no goal when no hex next to the player is free.
C23_ChaseGoalIsNearestAdjacent ==
    (d_proc = "calculate_ai_path" /\ d_behavior = "chase") =>
        IF AdjacentFree = {} THEN d_goal = None
        ELSE /\ d_goal \in AdjacentFree
             /\ \A c \in AdjacentFree :
                   HexDist(d_goal, d_enemy.pos) <= HexDist(c, d_enemy.pos)

\* The hexes within the enemy's movement budget that are unblocked and hold
\* neither the player nor another living enemy; own tells whether the
\* enemy's own hex counts as one of them.
RetreatCandidates(own) ==
    {c \in FreeHexes :
        /\ own \/ c # d_enemy.pos
        /\ HexDist(c, d_enemy.pos) <= d_enemy.mv_limit}

\* goal is farthest from the player among cands, the first such in scan order
\* (q, then r, ascending).
FarthestFirst(goal, cands) ==
    /\ goal \in cands
    /\ \A c \in cands :
          \/ HexDist(c, d_player_pos) < HexDist(goal, d_player_pos)
          \/ /\ HexDist(c, d_player_pos) = HexDist(goal, d_player_pos)
             /\ (c = goal \/ CellLess(goal, c))

\* C24: in retreat, the selected goal is a hex of the enemy's neighborhood
\* that is unblocked and unoccupied and farthest from the player among those,
\* the first of them in scan order; the enemy's own hex may or may not count
\* as unoccupied.
C24_RetreatGoalIsFarthestFree ==
    (/\ d_proc \in {"calculate_ai_path", "update_ai", "EnemyAI.calculate_move"}
     /\ d_behavior = "retreat" /\ d_goal # None) =>
        \E own \in BOOLEAN : FarthestFirst(d_goal, RetreatCandidates(own))

(***************************************************************************)
(* Claims about the round: what a planned round does                       *)
(***************************************************************************)
\* The tick commits the plan the player stored for this round.
CommitsPlayerPlan == ticks' # ticks /\ commanded_path # None /\ ~is_moving

\* The enemy i stands next to the living player, alive.
AdjacentLiving(i) ==
    /\ enemies[i].hp > 0 /\ player_hp > 0
    /\ HexDist(enemies[i].pos, player_pos) = 1

\* C25: at the tick of a planned round, a living enemy next to the living
\* player either moves (it leaves the tick with a path under way) or, having
\* planned no move, has its attack flag set and hits the player, whose HP
\* goes down; it never does neither.
C25_AdjacentEnemyMovesOrAttacks ==
    [][CommitsPlayerPlan =>
          \A i \in 1..Len(enemies) :
             AdjacentLiving(i) =>
                /\ raised' = "none"
                /\ \/ enemies'[i].is_moving /\ enemies'[i].queued_path # <<>>
                   \/ /\ enemies[i].attack_this_turn = "True"
                      /\ player_hp' < player_hp]_vars

\* The hex c is the hex pos or one of its six neighbors.
AtOrNextTo(c, pos) == c = pos \/ IsNeighbor(pos, c)

\* C26: a tick that commits a stored plan, the player's or an enemy's, finds
\* the plan's first hex at the actor's current position or next to it.
C26_CommittedPlanStartsAtActor ==
    [][ticks' # ticks =>
          /\ CommitsPlayerPlan => AtOrNextTo(commanded_path[1], player_pos)
          /\ \A k \in 1..Len(enemy_planned_paths) :
                AtOrNextTo(enemy_planned_paths[k][2][1],
                           enemies[enemy_planned_paths[k][1]].pos)]_vars

\* plan_player_path(goal) is called with the player at rest and finds no
\* valid path.
PlansWithoutPath(goal) ==
    PlanPlayerPath(goal) /\ ~is_moving /\ PlayerSearch(goal).path = <<>>

\* C27: a plan_player_path call that finds no valid path to its goal changes
\* nothing: the grid, commanded_path, the enemies' planned paths, the enemies
\* (attack flags, positions, movement) and the player's position and
\* movement flag are as before, so the player may plan again at once.
C27_NoPathPlanChangesNothing ==
    [][\A goal \in PlanGoals :
          PlansWithoutPath(goal) =>
              UNCHANGED <<tiles, commanded_path, enemy_planned_paths, enemies,
                          player_pos, is_moving, queued_path>>]_vars

(***************************************************************************)
(* Claims about the game mode                                              *)
(***************************************************************************)
InvalidModes == ModeStrings \ {"combat", "exploration"}

\* C28: switch_mode called with a string other than 'combat' and
\* 'exploration' raises ValueError and leaves game_mode, mv_limit,
\* combat_round and commanded_path as they were.
C28_InvalidModeRaises ==
    [][\A new_mode \in InvalidModes :
          SwitchMode(new_mode) =>
              /\ raised' = "ValueError"
              /\ UNCHANGED <<game_mode, mv_limit, combat_round, commanded_path>>]_vars

\* An invalid mode was passed in combat mode with a plan stored and the
\* movement limit of exploration still in force.
C28_Witness ==
    /\ raised = "ValueError"
    /\ game_mode = "combat" /\ mv_limit = ExplorationMv
    /\ commanded_path # None

(***************************************************************************)
(* Claims about turn ownership                                             *)
(***************************************************************************)
\* C29: turn ownership starts with the player and, execute_turn being called
\* again and again, passes to the enemies once the player's turn is
\* executed: whenever the player has a plan stored, the enemies' turn
\* eventually comes.
C29_EnemyTurnComes ==
    /\ current_turn = "player"
    /\ (commanded_path # None) ~> (current_turn = "enemy")

(***************************************************************************)
(* Claims about hex_distance                                               *)
(***************************************************************************)
\* C30: hex_distance is a metric on integer axial coordinates: it is
\* symmetric, it is 0 exactly when the two coordinates are equal, and
\* d(a, c) <= d(a, b) + d(b, c).
C30_HexDistanceIsMetric ==
    h_dist # None =>
       /\ h_dist.ab = h_dist.ba
       /\ h_dist.aa = 0
       /\ h_dist.ab = 0 <=> h_a = h_b
       /\ h_dist.ac <= h_dist.ab + h_dist.bc

\* Three different coordinates, one with a negative component, measured, the
\* way through b longer than the direct one.
C30_Witness ==
    /\ h_dist # None
    /\ h_a # h_b /\ h_b # h_c /\ h_a # h_c
    /\ h_b[1] < 0
    /\ 0 < h_dist.ac /\ h_dist.ac < h_dist.ab + h_dist.bc

\* The coordinates of the 5 x 5 box around a, which holds every coordinate
\* within two steps of it.
BoxAround(a) == {<<a[1] + dq, a[2] + dr>> : dq \in -2..2, dr \in -2..2}

\* C31: get_neighbors(q, r) returns six coordinates, all different, and they
\* are exactly the coordinates at hex distance 1 from (q, r).
C31_NeighborsAreTheRing ==
    h_dist # None =>
       /\ Len(h_dist.nb) = 6
       /\ \A i, j \in 1..6 : i # j => h_dist.nb[i] # h_dist.nb[j]
       /\ {h_dist.nb[i] : i \in 1..6} = {c \in BoxAround(h_a) : HexDist(h_a, c) = 1}

\* The neighbors of a coordinate with negative components were computed.
C31_Witness ==
    /\ h_dist # None
    /\ h_a[1] < 0 /\ h_a[2] < 0
    /\ h_dist.nb[2] = <<h_a[1] + 1, h_a[2] - 1>>

\* The offset from a to b has components of the same sign, both non-zero.
SameSignOffset == (h_b[1] - h_a[1]) * (h_b[2] - h_a[2]) > 0

C34_TickCommitsPlansOnce ==
    [][ticks' # ticks =>
          /\ (~is_moving /\ commanded_path # None) =>
                /\ queued_path' = commanded_path /\ current_path_index' = 0
                /\ is_moving' /\ commanded_path' = None
          /\ \A k \in 1..Len(enemy_planned_paths) :
                LET i == enemy_planned_paths[k][1] IN
                /\ enemies'[i].queued_path = enemy_planned_paths[k][2]
                /\ enemies'[i].current_path_index = 0 /\ enemies'[i].is_moving
          /\ enemy_planned_paths' = <<>>]_vars

\* The actor a has no movement under way.
Finished(a) == ~a.is_moving /\ a.queued_path = <<>> /\ a.current_path_index = 0

\* The player seen as an actor.
PlayerActor ==
    [pos |-> player_pos, is_moving |-> is_moving, queued_path |-> queued_path,
     current_path_index |-> current_path_index]

\* A frame changes the moving actor a into b: b stands on the next hex of
\* a's path and either goes on along the same path or, that hex being the
\* last, is finished.
NextHexInOrder(a, b) ==
    LET index == a.current_path_index + 1 IN
    /\ index <= Len(a.queued_path)
    /\ b.pos = a.queued_path[index]
    /\ IF index = Len(a.queued_path) THEN Finished(b)
       ELSE /\ b.is_moving /\ b.queued_path = a.queued_path
            /\ b.current_path_index = index

AllAtRest ==
    /\ ~is_moving
    /\ \A i \in 1..Len(enemies) : enemies[i].hp > 0 => ~enemies[i].is_moving

\* C36: in combat mode, once all committed movement has completed, no two
\* living actors stand on the same hex: the living enemies' positions differ
\* from one another and from the player's.
C36_NoSharedHex ==
    (game_mode = "combat" /\ AllAtRest) =>
        \A i \in 1..Len(enemies) :
           enemies[i].hp > 0 =>
              /\ player_hp > 0 => enemies[i].pos # player_pos
              /\ \A j \in 1..Len(enemies) :
                    (j # i /\ enemies[j].hp > 0) => enemies[j].pos # enemies[i].pos

\* C37: execute_round_tick and _resolve_combat_attacks never raise: at every
\* round tick each living enemy's attack_this_turn holds a boolean, also on a
\* tick before any planning and for enemies that only ever planned a move, and
\* the tick ends without an exception.
C37_TickNeverRaises ==
    [][ticks' # ticks =>
          /\ \A i \in 1..Len(enemies) :
                enemies[i].hp > 0 => enemies[i].attack_this_turn \in {"True", "False"}
          /\ raised' = "none"]_vars

(***************************************************************************)
(* Claims about the movement limit and the round counter                   *)
(***************************************************************************)
\* C33: whatever switch_mode calls were made, get_mv_limit() returns the
\* exploration limit in exploration mode and the configured combat limit
\* (6) in combat mode.
C33_MvLimitFollowsMode ==
    get_mv_limit(game_mode, mv_limit) =
        IF game_mode = "exploration" THEN ExplorationMv ELSE MvLimit

\* C38: in combat mode every round tick that completes raises combat_round by
\* exactly 1, and a switch to exploration mode resets it to 0.
C38_RoundCounterCounts ==
    [][/\ (game_mode = "combat" /\ ticks' # ticks /\ raised' = "none") =>
              combat_round' = combat_round + 1
       /\ (game_mode # "exploration" /\ game_mode' = "exploration") =>
              combat_round' = 0]_vars

(***************************************************************************)
(* Claims about the scheduler                                              *)
(***************************************************************************)
\* The events of a sequence, as a set.
EventsOf(seq) == {seq[i] : i \in 1..Len(seq)}

\* Earlier trigger times first, and among equal trigger times the event that
\* was scheduled first.
InTriggerOrder(seq) ==
    \A i \in 1..Len(seq) : \A j \in 1..Len(seq) :
       i < j => \/ seq[i].trigger_time < seq[j].trigger_time
                \/ /\ seq[i].trigger_time = seq[j].trigger_time
                   /\ seq[i].id < seq[j].id

\* C39: Scheduler.update(delta) runs exactly the pending events whose trigger
\* time is at most the advanced current time, each exactly once, in
\* non-decreasing trigger-time order and in scheduling order among equal
\* trigger times, and removes them from the queue; a raising callback does not
\* keep the remaining due events from running; the events not yet due stay
\* pending, and no event runs before its trigger time.
C39_UpdateRunsDueEventsInOrder ==
    [][(scheduled' = scheduled /\ (current_time' # current_time \/ ran' # ran)) =>
          LET now == current_time'
              due == {e \in EventsOf(events) : e.trigger_time <= now}
              called == SubSeq(ran', Len(ran) + 1, Len(ran'))
          IN /\ SubSeq(ran', 1, Len(ran)) = ran
             /\ EventsOf(called) = due
             /\ Len(called) = Cardinality(due)
             /\ InTriggerOrder(called)
             /\ EventsOf(ran) \cap due = {}
             /\ events' = SelectSeq(events, LAMBDA e : e.trigger_time > now)]_vars

\* One update ran a raising callback and then another event of the same
\* trigger time, and left an event that was not yet due in the queue.
C39_Witness ==
    /\ Len(ran) >= 2
    /\ Raises(ran[1].callback)
    /\ ran[2].trigger_time = ran[1].trigger_time
    /\ ran[2].trigger_time <= current_time
    /\ events # <<>>
    /\ events[1].trigger_time > current_time

(***************************************************************************)
(* Claims about the retrying network client                                *)
(***************************************************************************)
RECURSIVE Power(_, _)
Power(b, k) == IF k = 0 THEN 1 ELSE b * Power(b, k - 1)

\* The requests of the last call that were answered with status 200.
Answered200 ==
    {k \in 1..max_retries :
        post_responses[k].raised = "none" /\ post_responses[k].status = 200}

\* C40: post_with_retry makes at most max_retries requests, returns the JSON of
\* the first response with status 200 and makes no request after it, returns
\* None when every attempt fails, and sleeps only between attempts, the k-th
\* sleep lasting retry_delay * backoff_factor^(k-1), never after the last
\* attempt.
C40_RetryWithBackoff ==
    post_result # None =>
        /\ post_result.requests <= max_retries
        /\ IF Answered200 # {}
           THEN /\ post_result.requests = Min(Answered200)
                /\ post_result.returned = post_responses[Min(Answered200)].json
           ELSE /\ post_result.requests = max_retries
                /\ post_result.returned = None
        /\ Len(post_result.sleeps) = IF post_result.requests = 0 THEN 0
                                     ELSE post_result.requests - 1
        /\ \A k \in 1..Len(post_result.sleeps) :
              post_result.sleeps[k] = retry_delay * Power(backoff_factor, k - 1)

\* Three attempts failed, with sleeps of 2 and 6 seconds between them.
C40_Witness ==
    /\ post_result # None
    /\ post_result.returned = None
    /\ post_result.requests = 3
    /\ post_result.sleeps = <<2, 6>>
    /\ post_responses[3].raised = "RequestException"
    /\ post_responses[1].status = ErrorStatus

====
